---- MODULE Spec2Model ----
(***************************************************************************)
(* Model of the two subsystems of authzkit:                                *)
(*   - the tenant guard of packages/prisma-tenant-guard/src/index.ts       *)
(*     (createTenantClient / TenantGuard.enforce and its recursive walk),  *)
(*   - the policy engine of packages/core/src/index.ts (definePolicy /     *)
(*     checkDetailed and the mask merger).                                 *)
(* JSON values are tagged records; an object keeps its entries as a        *)
(* sequence of <<key, value>> pairs so that Object.entries order, which    *)
(* decides which violation is reported first, is the insertion order.      *)
(***************************************************************************)
EXTENDS Integers, Sequences, FiniteSets, TLC

VARIABLES guard, call, result, warnings, forwarded,
          policy, pcall, decision,
          heap, mcall, merged,
          rls, walk

vars == <<guard, call, result, warnings, forwarded, policy, pcall, decision,
          heap, mcall, merged, rls, walk>>

guardVars == <<guard, call, result, warnings, forwarded>>

policyVars == <<policy, pcall, decision>>

mergeVars == <<heap, mcall, merged>>

(***************************************************************************)
(* JSON values                                                             *)
(***************************************************************************)
Undef == [t |-> "undef"]

Str(s) == [t |-> "str", v |-> s]

Bool(b) == [t |-> "bool", v |-> b]

Arr(e) == [t |-> "arr", e |-> e]

Obj(kv) == [t |-> "obj", kv |-> kv]

IsArray(value) == value.t = "arr"

isPlainObject(value) == value.t = "obj"

\* own enumerable keys of an object, in insertion order
Keys(o) == [i \in DOMAIN o.kv |-> o.kv[i][1]]

\* `key in o` / Object.keys(o).includes(key); the keys of the model never
\* name a member of Object.prototype
HasKey(o, k) == \E i \in DOMAIN o.kv : o.kv[i][1] = k

\* o[k]: the value stored under k, undefined when the key is absent
Get(o, k) ==
  IF HasKey(o, k)
    THEN o.kv[CHOOSE i \in DOMAIN o.kv : o.kv[i][1] = k][2]
    ELSE Undef

\* o[k] = v: overwrite in place when the key exists, append otherwise
Put(o, k, v) ==
  IF HasKey(o, k)
    THEN Obj([i \in DOMAIN o.kv |->
               IF o.kv[i][1] = k THEN <<k, v>> ELSE o.kv[i]])
    ELSE Obj(Append(o.kv, <<k, v>>))

(***************************************************************************)
(* Tenant guard: constants of the program                                  *)
(***************************************************************************)
WRITE_OPERATIONS ==
  {"create", "createMany", "update", "updateMany", "upsert", "delete",
   "deleteMany"}

RELATION_OPERATIONS ==
  {"create", "createMany", "connect", "connectOrCreate", "update",
   "updateMany", "upsert", "deleteMany", "set", "disconnect"}

Modes == {"assist", "assert", "strict"}

\* the tenant the guard is constructed for, and a foreign tenant
TenantA == "tenant-a"

TenantB == "tenant-b"

\* TenantMeta handed to createTenantClient.  Post and Comment form a cycle
\* (Post.comments -> Comment, Comment.post -> Post); Post.tags is a
\* per-operation map without $default, so only `create` resolves.
\* ts, cs: tenantField / compositeSelector, "" when the key is absent.
\* nestedTargets: sequence of <<relationField, config>> in declaration
\* order; a config is a model name (string form) or a per-operation map.
Meta ==
  [ Post    |-> [ts |-> "", cs |-> "tenantId_id",
                 nestedTargets |->
                   << <<"comments", [str |-> TRUE, target |-> "Comment"]>>,
                      <<"tags", [str |-> FALSE, ops |-> [create |-> "Tag"],
                                 default |-> ""]>> >>],
    Comment |-> [ts |-> "tenantId", cs |-> "tenantId_id",
                 nestedTargets |->
                   << <<"post", [str |-> TRUE, target |-> "Post"]>> >>],
    Tag     |-> [ts |-> "orgId", cs |-> "", nestedTargets |-> << >>] ]

hasMeta(model) == model \in DOMAIN Meta

toPath(base, segment) == IF base # "" THEN base \o "." \o segment ELSE segment

\* a one-based variant of toIndexPath, against which C8 is tested
toIndexPathOneBased(base, index) == base \o "[" \o ToString(index + 1) \o "]"

\* index is the zero-based JavaScript index
toIndexPath(base, index) == base \o "[" \o ToString(index) \o "]"

getTenantField(model) ==
  IF hasMeta(model) /\ Meta[model].ts # "" THEN Meta[model].ts ELSE "tenantId"

getCompositeSelector(model) ==
  IF hasMeta(model) THEN Meta[model].cs ELSE ""

getNestedTargets(model) ==
  IF hasMeta(model) THEN Meta[model].nestedTargets ELSE << >>

\* `key in nestedTargets`
inNestedTargets(model, key) ==
  \E i \in DOMAIN getNestedTargets(model) : getNestedTargets(model)[i][1] = key

\* "" stands for undefined (no target model)
resolveTargetModel(parentModel, relationField, config, operation) ==
  IF config.str THEN config.target
  ELSE IF operation \in DOMAIN config.ops /\ config.ops[operation] # ""
    THEN config.ops[operation]
  ELSE IF config.default # "" THEN config.default
  ELSE ""

RECURSIVE hasRelationOperations(_)
hasRelationOperations(value) ==
  IF IsArray(value)
    THEN \E i \in DOMAIN value.e : hasRelationOperations(value.e[i])
  ELSE IF ~isPlainObject(value) THEN FALSE
  ELSE \E i \in DOMAIN value.kv : value.kv[i][1] \in RELATION_OPERATIONS

(***************************************************************************)
(* Errors, warnings and the result of a walk step.  A step returns the     *)
(* payload as it stands after the in-place mutations made so far, the      *)
(* warnings emitted so far and the error thrown (NoError when none).       *)
(***************************************************************************)
NoError == [code |-> "none"]

error(code, model, operation, path, actualTenant) ==
  [code |-> code, model |-> model, operation |-> operation, path |-> path,
   expectedTenant |-> guard.tenantId, actualTenant |-> actualTenant]

\* a guard that drops its warnings, against which C5 is tested
warnDropped(warns, warning) == warns

warn(warns, warning) == IF guard.onWarn THEN Append(warns, warning) ELSE warns

R(v, warns, err) == [v |-> v, warns |-> warns, err |-> err]

Threw(r) == r.err # NoError

\* variants of the branch conditions, against which C4, C6 and C9 are tested
tenantDiffersNever(presentTenant) == FALSE

mayInjectAlways(allowRewrite) == allowRewrite

metaRequiredIgnoringRls == guard.mode = "strict"

\* the conditions the walk branches on
tenantDiffers(presentTenant) == presentTenant # Str(guard.tenantId)

mayInject(allowRewrite) == guard.mode = "assist" /\ allowRewrite

metaRequired == guard.mode = "strict" /\ ~guard.rlsEnabled


(***************************************************************************)
(* The recursive walk of TenantGuard                                       *)
(***************************************************************************)
RECURSIVE ensureData(_,_,_,_,_), ensureNestedRelations(_,_,_,_),
          nestedTargetsLoop(_,_,_,_,_), strictKeysLoop(_,_,_,_,_),
          processRelationPayload(_,_,_,_,_,_), relationEntriesLoop(_,_,_,_,_,_,_),
          relationOperation(_,_,_,_,_), ensureConnectPayload(_,_,_,_,_),
          ensureConnectOrCreate(_,_,_,_), forEachItem(_,_,_,_,_,_),
          applyTo(_,_,_,_,_)

ensureWhere(model, payload, path, opts, warns) ==
  IF ~isPlainObject(payload)
    THEN R(payload, warns,
           error("WHERE_TENANT_MISSING", model, opts.operation, path, Undef))
  ELSE
    LET tenantField == getTenantField(model)
        compositeSelector == getCompositeSelector(model)
        composite == Get(payload, compositeSelector)
        compositeTenant == Get(composite, tenantField)
    IN
    IF Get(payload, tenantField) = Undef
      THEN
        IF compositeSelector # "" /\ isPlainObject(composite)
          THEN
            IF compositeTenant = Undef
              THEN
                IF mayInject(opts.allowRewrite)
                  THEN R(Put(payload, compositeSelector,
                             Put(composite, tenantField, Str(guard.tenantId))),
                         warn(warns, [code |-> "INJECT_TENANT_WHERE",
                                      model |-> model,
                                      operation |-> opts.operation,
                                      path |-> toPath(path, compositeSelector)]),
                         NoError)
                  ELSE R(payload, warns,
                         error("WHERE_TENANT_MISSING", model, opts.operation,
                               path, Undef))
            ELSE IF tenantDiffers(compositeTenant)
              THEN R(payload, warns,
                     error("TENANT_MISMATCH", model, opts.operation, path,
                           compositeTenant))
            ELSE R(payload, warns, NoError)
        ELSE IF mayInject(opts.allowRewrite)
          THEN R(Put(payload, tenantField, Str(guard.tenantId)),
                 warn(warns, [code |-> "INJECT_TENANT_WHERE", model |-> model,
                              operation |-> opts.operation, path |-> path]),
                 NoError)
        ELSE R(payload, warns,
               error("WHERE_TENANT_MISSING", model, opts.operation, path, Undef))
    ELSE IF tenantDiffers(Get(payload, tenantField))
      THEN R(payload, warns,
             error("TENANT_MISMATCH", model, opts.operation, path,
                   Get(payload, tenantField)))
    ELSE R(payload, warns, NoError)

\* array.forEach((item, index) => fn(item, toIndexPath(path, index))) from
\* the one-based position i on; a throw leaves the later items unvisited
forEachItem(fn, ctx, arr, path, warns, i) ==
  IF i > Len(arr.e) THEN R(arr, warns, NoError)
  ELSE
    LET next(r) ==
          IF Threw(r) THEN R(Arr([arr.e EXCEPT ![i] = r.v]), r.warns, r.err)
          ELSE forEachItem(fn, ctx, Arr([arr.e EXCEPT ![i] = r.v]), path,
                           r.warns, i + 1)
    IN next(applyTo(fn, ctx, arr.e[i], toIndexPath(path, i - 1), warns))

\* the callback of each forEach of the walk
applyTo(fn, ctx, item, path, warns) ==
  CASE fn = "ensureData" -> ensureData(ctx.model, item, path, ctx.opts, warns)
    [] fn = "processRelationPayload" ->
         processRelationPayload(ctx.parentModel, ctx.relationField, ctx.config,
                                item, path, warns)
    [] fn = "ensureConnectPayload" ->
         ensureConnectPayload(ctx.model, item, path, ctx.operation, warns)
    [] fn = "ensureConnectOrCreate" ->
         ensureConnectOrCreate(ctx.model, item, path, warns)
    [] fn = "ensureWhere" -> ensureWhere(ctx.model, item, path, ctx.opts, warns)

ensureData(model, rawValue, path, opts, warns) ==
  IF IsArray(rawValue)
    THEN forEachItem("ensureData", [model |-> model, opts |-> opts],
                     rawValue, path, warns, 1)
  ELSE IF ~isPlainObject(rawValue)
    THEN IF opts.requireTenantField
           THEN R(rawValue, warns,
                  error("TENANT_FIELD_MISSING", model, "$unknown", path, Undef))
           ELSE R(rawValue, warns, NoError)
  ELSE
    LET tenantField == getTenantField(model)
        presentTenant == Get(rawValue, tenantField)
    IN
    IF presentTenant = Undef
      THEN
        IF opts.requireTenantField
          THEN
            IF mayInject(opts.allowRewrite)
              THEN ensureNestedRelations(
                     model, Put(rawValue, tenantField, Str(guard.tenantId)),
                     path,
                     warn(warns, [code |-> "INJECT_TENANT_FIELD",
                                  model |-> model,
                                  operation |-> opts.mutationKind,
                                  path |-> path]))
              ELSE R(rawValue, warns,
                     error("TENANT_FIELD_MISSING", model, opts.mutationKind,
                           path, Undef))
          ELSE ensureNestedRelations(model, rawValue, path, warns)
    ELSE IF tenantDiffers(presentTenant)
      THEN R(rawValue, warns,
             error("TENANT_MISMATCH", model, opts.mutationKind, path,
                   presentTenant))
    ELSE ensureNestedRelations(model, rawValue, path, warns)

ensureNestedRelations(model, data, path, warns) ==
  LET strictCheck(r) ==
        IF Threw(r) THEN r
        ELSE IF metaRequired THEN strictKeysLoop(model, r.v, path, r.warns, 1)
        ELSE r
  IN strictCheck(nestedTargetsLoop(model, data, path, warns, 1))

\* for (const [relationField, nestedConfig] of Object.entries(nestedTargets))
nestedTargetsLoop(model, data, path, warns, i) ==
  IF i > Len(getNestedTargets(model)) THEN R(data, warns, NoError)
  ELSE
    LET relationField == getNestedTargets(model)[i][1]
        nestedConfig == getNestedTargets(model)[i][2]
    IN
    IF ~HasKey(data, relationField)
      THEN nestedTargetsLoop(model, data, path, warns, i + 1)
    ELSE
      LET next(r) ==
            IF Threw(r) THEN R(Put(data, relationField, r.v), r.warns, r.err)
            ELSE nestedTargetsLoop(model, Put(data, relationField, r.v), path,
                                   r.warns, i + 1)
      IN next(processRelationPayload(model, relationField, nestedConfig,
                                     Get(data, relationField),
                                     toPath(path, relationField), warns))

\* for (const [key, value] of Object.entries(data)) of the strict check
strictKeysLoop(model, data, path, warns, i) ==
  IF i > Len(data.kv) THEN R(data, warns, NoError)
  ELSE
    LET key == data.kv[i][1]
        value == data.kv[i][2]
    IN
    IF inNestedTargets(model, key)
      THEN strictKeysLoop(model, data, path, warns, i + 1)
    ELSE IF hasRelationOperations(value)
      THEN R(data, warns,
             error("TENANT_META_MISSING", model, key, toPath(path, key), Undef))
    ELSE strictKeysLoop(model, data, path, warns, i + 1)

processRelationPayload(parentModel, relationField, config, payload, path, warns) ==
  IF ~isPlainObject(payload)
    THEN IF IsArray(payload)
           THEN forEachItem("processRelationPayload",
                            [parentModel |-> parentModel,
                             relationField |-> relationField,
                             config |-> config],
                            payload, path, warns, 1)
           ELSE R(payload, warns, NoError)
  ELSE relationEntriesLoop(parentModel, relationField, config, payload, path,
                           warns, 1)

\* for (const [operation, value] of Object.entries(payload))
relationEntriesLoop(parentModel, relationField, config, payload, path, warns, i) ==
  IF i > Len(payload.kv) THEN R(payload, warns, NoError)
  ELSE
    LET operation == payload.kv[i][1]
        value == payload.kv[i][2]
        targetModel == resolveTargetModel(parentModel, relationField, config,
                                          operation)
    IN
    IF operation \notin RELATION_OPERATIONS
      THEN relationEntriesLoop(parentModel, relationField, config, payload,
                               path, warns, i + 1)
    ELSE IF targetModel = ""
      THEN IF metaRequired
             THEN R(payload, warns,
                    error("TENANT_META_MISSING", parentModel, operation, path,
                          Undef))
             ELSE relationEntriesLoop(parentModel, relationField, config,
                                      payload, path, warns, i + 1)
    ELSE
      LET next(r) ==
            IF Threw(r) THEN R(Put(payload, operation, r.v), r.warns, r.err)
            ELSE relationEntriesLoop(parentModel, relationField, config,
                                     Put(payload, operation, r.v), path,
                                     r.warns, i + 1)
      IN next(relationOperation(targetModel, operation, value,
                                toPath(path, operation), warns))


\* a nested object mutated in place is seen through its parent; an absent
\* key stays absent
PutBack(o, k, v) == IF HasKey(o, k) THEN Put(o, k, v) ELSE o

\* the result of a step on o[k], seen from o
Within(o, k, r) == R(PutBack(o, k, r.v), r.warns, r.err)

\* JavaScript truthiness of a value
Truthy(value) ==
  CASE value.t = "undef" -> FALSE
    [] value.t = "str" -> value.v # ""
    [] value.t = "bool" -> value.v
    [] OTHER -> TRUE

createOpts ==
  [requireTenantField |-> TRUE, allowRewrite |-> TRUE, mutationKind |-> "create"]

\* update options that ask for the tenant field as the create options do
updateOptsRequiring ==
  [requireTenantField |-> TRUE, allowRewrite |-> TRUE, mutationKind |-> "update"]

updateOpts ==
  [requireTenantField |-> FALSE, allowRewrite |-> FALSE, mutationKind |-> "update"]

\* where options that never allow a rewrite, against which C7 is tested
whereOptsNoRewrite(allowRewrite, operation) ==
  [allowRewrite |-> FALSE, operation |-> operation]

whereOpts(allowRewrite, operation) ==
  [allowRewrite |-> allowRewrite, operation |-> operation]

\* where / data of a nested update or updateMany
nestedUpdate(targetModel, operation, value, opPath, warns) ==
  LET where == Get(value, "where")
      thenData(r1) ==
        IF Threw(r1) THEN r1
        ELSE IF Get(r1.v, "data") # Undef
          THEN Within(r1.v, "data",
                      ensureData(targetModel, Get(r1.v, "data"),
                                 toPath(opPath, "data"), updateOpts, r1.warns))
        ELSE r1
  IN thenData(IF where # Undef
                THEN Within(value, "where",
                            ensureWhere(targetModel, where,
                                        toPath(opPath, "where"),
                                        whereOpts(TRUE, operation), warns))
                ELSE R(value, warns, NoError))

\* where / create / update of a nested upsert
nestedUpsert(targetModel, operation, value, opPath, warns) ==
  LET where == Get(value, "where")
      thenUpdate(r2) ==
        IF Threw(r2) THEN r2
        ELSE IF Get(r2.v, "update") # Undef
          THEN Within(r2.v, "update",
                      ensureData(targetModel, Get(r2.v, "update"),
                                 toPath(opPath, "update"), updateOpts,
                                 r2.warns))
        ELSE r2
      thenCreate(r1) ==
        thenUpdate(IF Threw(r1) THEN r1
                   ELSE IF Get(r1.v, "create") # Undef
                     THEN Within(r1.v, "create",
                                 ensureData(targetModel, Get(r1.v, "create"),
                                            toPath(opPath, "create"),
                                            createOpts, r1.warns))
                   ELSE r1)
  IN thenCreate(IF where # Undef
                  THEN Within(value, "where",
                              ensureWhere(targetModel, where,
                                          toPath(opPath, "where"),
                                          whereOpts(TRUE, operation), warns))
                  ELSE R(value, warns, NoError))

\* the switch (operation) of processRelationPayload
relationOperation(targetModel, operation, value, opPath, warns) ==
  CASE operation = "create" ->
         ensureData(targetModel, value, opPath, createOpts, warns)
    [] operation = "createMany" ->
         IF isPlainObject(value)
           THEN Within(value, "data",
                       ensureData(targetModel, Get(value, "data"),
                                  toPath(opPath, "data"), createOpts, warns))
           ELSE R(value, warns, NoError)
    [] operation \in {"update", "updateMany"} ->
         IF isPlainObject(value)
           THEN nestedUpdate(targetModel, operation, value, opPath, warns)
           ELSE R(value, warns, NoError)
    [] operation = "upsert" ->
         IF isPlainObject(value)
           THEN nestedUpsert(targetModel, operation, value, opPath, warns)
           ELSE R(value, warns, NoError)
    [] operation \in {"connect", "set", "disconnect"} ->
         ensureConnectPayload(targetModel, value, opPath, operation, warns)
    [] operation = "connectOrCreate" ->
         ensureConnectOrCreate(targetModel, value, opPath, warns)
    [] operation = "deleteMany" ->
         IF IsArray(value)
           THEN forEachItem("ensureWhere",
                            [model |-> targetModel,
                             opts |-> whereOpts(FALSE, operation)],
                            value, opPath, warns, 1)
           ELSE ensureWhere(targetModel, value, opPath,
                            whereOpts(FALSE, operation), warns)
    [] OTHER -> R(value, warns, NoError)

ensureConnectPayload(model, payload, path, operation, warns) ==
  IF IsArray(payload)
    THEN forEachItem("ensureConnectPayload",
                     [model |-> model, operation |-> operation],
                     payload, path, warns, 1)
  ELSE IF ~isPlainObject(payload)
    THEN R(payload, warns,
           error("TENANT_FIELD_MISSING", model, operation, path, Undef))
  ELSE
    LET compositeSelector == getCompositeSelector(model)
        tenantField == getTenantField(model)
        composite == Get(payload, compositeSelector)
        tenantValue == Get(composite, tenantField)
    IN
    IF Get(payload, tenantField) # Undef
      THEN IF tenantDiffers(Get(payload, tenantField))
             THEN R(payload, warns,
                    error("TENANT_MISMATCH", model, operation, path,
                          Get(payload, tenantField)))
             ELSE R(payload, warns, NoError)
    ELSE IF isPlainObject(Get(payload, "where"))
      THEN Within(payload, "where",
                  ensureWhere(model, Get(payload, "where"),
                              toPath(path, "where"),
                              whereOpts(TRUE, operation), warns))
    ELSE IF compositeSelector # "" /\ isPlainObject(composite)
      THEN
        IF tenantValue = Undef
          THEN
            IF mayInject(TRUE)
              THEN R(Put(payload, compositeSelector,
                         Put(composite, tenantField, Str(guard.tenantId))),
                     warn(warns, [code |-> "INJECT_TENANT_FIELD",
                                  model |-> model, operation |-> operation,
                                  path |-> toPath(path, compositeSelector)]),
                     NoError)
              ELSE R(payload, warns,
                     error("TENANT_FIELD_MISSING", model, operation, path,
                           Undef))
        ELSE IF tenantDiffers(tenantValue)
          THEN R(payload, warns,
                 error("TENANT_MISMATCH", model, operation, path, tenantValue))
        ELSE R(payload, warns, NoError)
    ELSE IF metaRequired
      THEN R(payload, warns,
             error("TENANT_META_MISSING", model, operation, path, Undef))
    ELSE R(payload, warns, NoError)

ensureConnectOrCreate(model, payload, path, warns) ==
  IF IsArray(payload)
    THEN forEachItem("ensureConnectOrCreate", [model |-> model],
                     payload, path, warns, 1)
  ELSE IF ~isPlainObject(payload)
    THEN R(payload, warns,
           error("TENANT_FIELD_MISSING", model, "connectOrCreate", path, Undef))
  ELSE
    LET thenCreate(r1) ==
          IF Threw(r1) THEN r1
          ELSE IF Truthy(Get(r1.v, "create"))
            THEN Within(r1.v, "create",
                        ensureData(model, Get(r1.v, "create"),
                                   toPath(path, "create"), createOpts,
                                   r1.warns))
          ELSE r1
    IN thenCreate(IF Truthy(Get(payload, "where"))
                    THEN Within(payload, "where",
                                ensureWhere(model, Get(payload, "where"),
                                            toPath(path, "where"),
                                            whereOpts(TRUE, "connectOrCreate"),
                                            warns))
                    ELSE R(payload, warns, NoError))

ensureCreateMany(model, args, pathRoot, warns) ==
  LET data == Get(args, "data")
      path == toPath(pathRoot, "data")
  IN
  IF IsArray(data)
    THEN Within(args, "data",
                forEachItem("ensureData", [model |-> model, opts |-> createOpts],
                            data, path, warns, 1))
  ELSE IF isPlainObject(data) /\ IsArray(Get(data, "data"))
    THEN Within(args, "data",
                Within(data, "data",
                       forEachItem("ensureData",
                                   [model |-> model, opts |-> createOpts],
                                   Get(data, "data"), toPath(path, "data"),
                                   warns, 1)))
  ELSE R(args, warns, NoError)

\* ensureWhere on args.where followed, when withData, by ensureData on
\* args.data (update, updateMany)
whereThenData(model, operation, args, pathRoot, withData) ==
  LET thenData(r1) ==
        IF Threw(r1) \/ ~withData THEN r1
        ELSE Within(r1.v, "data",
                    ensureData(model, Get(r1.v, "data"),
                               toPath(pathRoot, "data"), updateOpts, r1.warns))
  IN thenData(Within(args, "where",
                     ensureWhere(model, Get(args, "where"),
                                 toPath(pathRoot, "where"),
                                 whereOpts(TRUE, operation), << >>)))

enforceUpsert(model, operation, args, pathRoot) ==
  LET thenUpdate(r2) ==
        IF Threw(r2) THEN r2
        ELSE Within(r2.v, "update",
                    ensureData(model, Get(r2.v, "update"),
                               toPath(pathRoot, "update"), updateOpts,
                               r2.warns))
      thenCreate(r1) ==
        thenUpdate(IF Threw(r1) THEN r1
                   ELSE Within(r1.v, "create",
                               ensureData(model, Get(r1.v, "create"),
                                          toPath(pathRoot, "create"),
                                          createOpts, r1.warns)))
  IN thenCreate(Within(args, "where",
                       ensureWhere(model, Get(args, "where"),
                                   toPath(pathRoot, "where"),
                                   whereOpts(TRUE, operation), << >>)))

\* TenantGuard.enforce: the args after the in-place rewrites, the warnings
\* handed to onWarn and the error thrown
enforce(model, operation, args) ==
  IF ~isPlainObject(args) THEN R(args, << >>, NoError)
  ELSE
    CASE operation = "create" ->
           Within(args, "data",
                  ensureData(model, Get(args, "data"), toPath(model, "data"),
                             createOpts, << >>))
      [] operation = "createMany" -> ensureCreateMany(model, args, model, << >>)
      [] operation \in {"update", "delete"} ->
           whereThenData(model, operation, args, model, operation = "update")
      [] operation \in {"updateMany", "deleteMany"} ->
           whereThenData(model, operation, args, model, operation = "updateMany")
      [] operation = "upsert" -> enforceUpsert(model, operation, args, model)
      [] OTHER -> R(args, << >>, NoError)


(***************************************************************************)
(* Bounded inputs: the args trees handed to the guarded client             *)
(***************************************************************************)
\* nesting depth of chained nested creates, and longest list of rows
MaxDepth == 2

MaxList == 2

\* tenant of a row or selector: absent (""), the guard's tenant, a foreign one
TenantOpts == {"", TenantA, TenantB}

Id == <<"id", Str("x1")>>

\* an object with tenant field tf set to tenant t (absent when t = ""),
\* followed by the entries rest
Row(tf, t, rest) ==
  Obj((IF t = "" THEN << >> ELSE << <<tf, Str(t)>> >>) \o rest)

Rows0(m) == { Row(getTenantField(m), t, << >>) : t \in TenantOpts }

\* where clauses / unique selectors of model m
Wheres(m) ==
  { Row(getTenantField(m), t, <<Id>>) : t \in TenantOpts }
  \cup (IF getCompositeSelector(m) = "" THEN {}
        ELSE { Obj(<< <<getCompositeSelector(m),
                        Row(getTenantField(m), t, <<Id>>)>> >>) :
               t \in TenantOpts })

\* lists of at most n leaf rows
RECURSIVE RowLists(_,_)
RowLists(m, n) ==
  IF n = 0 THEN {<< >>}
  ELSE RowLists(m, n - 1)
       \cup { Append(l, r) : l \in RowLists(m, n - 1), r \in Rows0(m) }

ChainField(m) == IF m = "Post" THEN "comments" ELSE "post"

ChainTarget(m) == IF m = "Post" THEN "Comment" ELSE "Post"

\* lists of fewer than MaxList rows of the guard's own tenant
OwnPrefixes(m) ==
  { [i \in 1..n |-> Row(getTenantField(m), TenantA, << >>)] : n \in 0..(MaxList - 1) }

\* rows of model m carrying nested creates through the declared relations
\* Post.comments and Comment.post down to depth d; the nested value is a
\* single row, a list of leaf rows, or a list of own-tenant rows followed
\* by a deeper one
RECURSIVE ChainRows(_,_)
ChainRows(m, d) ==
  IF d = 0 THEN Rows0(m)
  ELSE Rows0(m)
       \cup { Row(getTenantField(m), t,
                  << <<ChainField(m), Obj(<< <<"create", c>> >>)>> >>) :
              t \in {"", TenantA},
              c \in ChainRows(ChainTarget(m), d - 1)
                    \cup { Arr(l) : l \in RowLists(ChainTarget(m), MaxList) }
                    \cup { Arr(Append(l, r)) :
                           l \in OwnPrefixes(ChainTarget(m)),
                           r \in ChainRows(ChainTarget(m), d - 1) } }

\* a Post row of a foreign tenant with a nested create
ForeignParentData ==
  { Row("tenantId", TenantB, << <<"comments", Obj(<< <<"create", r>> >>)>> >>) :
    r \in Rows0("Comment") }

OneOrList(S) == S \cup { Arr(<<x>>) : x \in S }

\* selectors of connect / set / disconnect
Selectors(m) ==
  Wheres(m)
  \cup { Obj(<< <<"where", w>> >>) : w \in Wheres(m) }
  \cup { Obj(<< <<getTenantField(m), Str(TenantA)>>,
                <<"where", Row(getTenantField(m), TenantB, <<Id>>)>> >>),
         Str("x1") }
  \cup (IF getCompositeSelector(m) = "" THEN {}
        ELSE { Obj(<< <<getTenantField(m), Str(TenantA)>>,
                      <<getCompositeSelector(m),
                        Row(getTenantField(m), TenantB, <<Id>>)>> >>) })

UpdateValues(m) ==
  { Obj(<< <<"where", w>>, <<"data", r>> >>) : w \in Wheres(m), r \in Rows0(m) }
  \cup { Obj(<< <<"data", r>> >>) : r \in Rows0(m) }

UpsertValues(m) ==
  { Obj(<< <<"where", Row(getTenantField(m), t, <<Id>>)>>,
           <<"create", c>>, <<"update", u>> >>) :
    t \in {"", TenantA}, c \in Rows0(m), u \in Rows0(m) }

\* one relation operation on a relation whose rows are of model m
RelPayloads(m) ==
  { Obj(<< <<"createMany", Obj(<< <<"data", Arr(l)>> >>)>> >>) :
    l \in RowLists(m, MaxList) }
  \cup { Obj(<< <<op, v>> >>) :
         op \in {"update", "updateMany"}, v \in OneOrList(UpdateValues(m)) }
  \cup { Obj(<< <<"upsert", v>> >>) : v \in OneOrList(UpsertValues(m)) }
  \cup { Obj(<< <<op, v>> >>) :
         op \in {"connect", "set", "disconnect"}, v \in OneOrList(Selectors(m)) }
  \cup { Obj(<< <<"connectOrCreate",
                  Obj(<< <<"where", w>>, <<"create", r>> >>)>> >>) :
         w \in { Row(getTenantField(m), t, <<Id>>) : t \in TenantOpts },
         r \in Rows0(m) }
  \cup { Obj(<< <<"deleteMany", v>> >>) :
         v \in OneOrList(Wheres(m) \cup {Obj(<< >>)}) }
  \cup { Obj(<< <<"delete", Bool(TRUE)>> >>) }
  \cup { Obj(<< <<"create", r>> >>) : r \in Rows0(m) }
  \cup { Obj(<< <<"connect", Row(getTenantField(m), TenantA, <<Id>>)>>,
                <<"create", r>> >>) : r \in Rows0(m) }

\* relation fields a Post payload may carry: two declared, one undeclared
PostRelations ==
  { <<"comments", "Comment">>, <<"tags", "Tag">>, <<"attachments", "Attachment">> }

\* Post rows with one relation operation under one relation field
FlatData ==
  UNION { { Row("tenantId", t, << <<f[1], p>> >>) :
            t \in {"", TenantA}, p \in RelPayloads(f[2]) } :
          f \in PostRelations }

\* Post rows with a declared and an undeclared relation, in both key orders
TwoRelationData ==
  UNION { { Row("tenantId", TenantA,
                << <<"comments", Obj(<< <<"create", r>> >>)>>,
                   <<"attachments", Obj(<< <<"create", q>> >>)>> >>),
            Row("tenantId", TenantA,
                << <<"attachments", Obj(<< <<"create", q>> >>)>>,
                   <<"comments", Obj(<< <<"create", r>> >>)>> >>) } :
          r \in Rows0("Comment"), q \in Rows0("Attachment") }

CreateData ==
  ChainRows("Post", MaxDepth) \cup FlatData \cup TwoRelationData
  \cup ForeignParentData

TopWheres == Wheres("Post") \cup {Obj(<< >>)}

\* args of update / updateMany: every where with a leaf payload, and the
\* nested payloads under a where that names the tenant or leaves it out
UpdateArgs ==
  { Obj(<< <<"where", w>>, <<"data", d>> >>) :
    w \in TopWheres, d \in Rows0("Post") }
  \cup { Obj(<< <<"data", d>> >>) : d \in Rows0("Post") }
  \cup { Obj(<< <<"where", Row("tenantId", t, <<Id>>)>>, <<"data", d>> >>) :
         t \in {"", TenantA},
         d \in { Row("tenantId", "", << <<"comments", p>> >>) :
                 p \in RelPayloads("Comment") } }

DeleteArgs ==
  { Obj(<< <<"where", w>> >>) : w \in TopWheres } \cup { Obj(<< >>) }

UpsertArgs ==
  { Obj(<< <<"where", w>>, <<"create", c>>, <<"update", u>> >>) :
    w \in TopWheres, c \in Rows0("Post"), u \in Rows0("Post") }
  \cup { Obj(<< <<"where", Row("tenantId", TenantA, <<Id>>)>>,
                <<"create", c>>, <<"update", u>> >>) :
         c \in ForeignParentData \cup TwoRelationData,
         u \in ForeignParentData \cup Rows0("Post") }

CreateArgs == { Obj(<< <<"data", d>> >>) : d \in CreateData } \cup { Obj(<< >>) }

CreateManyArgs ==
  { Obj(<< <<"data", Arr(l)>> >>) : l \in RowLists("Post", MaxList) }
  \cup { Obj(<< <<"data", r>> >>) : r \in Rows0("Post") }
  \cup { Obj(<< <<"data", Obj(<< <<"data", Arr(<<r>>)>> >>)>> >>) :
         r \in Rows0("Post") }

READ_OPERATIONS == {"findMany", "findUnique"}

ReadArgs == { Obj(<< <<"where", w>> >>) : w \in TopWheres }

(***************************************************************************)
(* The guarded client as a state machine                                   *)
(***************************************************************************)
NoCall == [operation |-> "none"]

NotForwarded == [t |-> "none"]

\* createTenantClient(prisma, options): mode defaults to 'strict',
\* rls.enabled to false
GuardConfigs ==
  [tenantId : {TenantA}, mode : Modes, rlsEnabled : BOOLEAN, onWarn : {TRUE}]
  \cup [tenantId : {TenantA}, mode : {"assist"}, rlsEnabled : {FALSE},
        onWarn : {FALSE}]

Init ==
  /\ guard \in GuardConfigs
  /\ call = NoCall
  /\ result = R(Undef, << >>, NoError)
  /\ warnings = << >>
  /\ forwarded = NotForwarded
  /\ policy = << >>
  /\ pcall = NoCall
  /\ decision = NoCall
  /\ heap = << >>
  /\ mcall = NoCall
  /\ merged = NoCall
  /\ rls = NoCall
  /\ walk = NoCall

\* an enforce that hands back a copy of its args
enforceReturnsCopy(argsRef) == "copy"

\* return args: the object enforce returns is the one it was given
enforceReturns(argsRef) == argsRef

\* a guard that falls back to assist mode once a call has thrown
guardRelaxed(g, r) == IF Threw(r) THEN [g EXCEPT !.mode = "assist"] ELSE g

\* the guard after a call with outcome r: its fields are private readonly
\* and assigned in the constructor only
guardAfter(g, r) == g

\* $allOperations(params): reads go straight to params.query; writes go
\* through guard.enforce, whose throw keeps params.query from being called;
\* queryRef is the object params.query is called with
AllOperations(model, operation, args) ==
  /\ call = NoCall
  /\ LET outcome(r) ==
           /\ call' = [model |-> model, operation |-> operation, args |-> args,
                       argsRef |-> "params.args",
                       queryRef |-> IF Threw(r) THEN "none"
                                    ELSE IF operation \notin WRITE_OPERATIONS
                                      THEN "params.args"
                                    ELSE enforceReturns("params.args")]
           /\ result' = r
           /\ warnings' = r.warns
           /\ forwarded' = IF Threw(r) THEN NotForwarded ELSE r.v
           /\ guard' = guardAfter(guard, r)
     IN outcome(IF operation \notin WRITE_OPERATIONS
                  THEN R(args, << >>, NoError)
                  ELSE enforce(model, operation, args))
  /\ UNCHANGED <<policyVars, mergeVars, rls, walk>>

Create == \E args \in CreateArgs : AllOperations("Post", "create", args)

CreateMany == \E args \in CreateManyArgs : AllOperations("Post", "createMany", args)

Update ==
  \E op \in {"update", "updateMany"}, args \in UpdateArgs :
    AllOperations("Post", op, args)

Delete ==
  \E op \in {"delete", "deleteMany"}, args \in DeleteArgs :
    AllOperations("Post", op, args)

Upsert == \E args \in UpsertArgs : AllOperations("Post", "upsert", args)

Read ==
  \E op \in READ_OPERATIONS, args \in ReadArgs : AllOperations("Post", op, args)

\* the promise of the call settles; the client is ready for the next call
Settle ==
  /\ call # NoCall
  /\ call' = NoCall
  /\ result' = R(Undef, << >>, NoError)
  /\ warnings' = << >>
  /\ forwarded' = NotForwarded
  /\ UNCHANGED <<guard, policyVars, mergeVars, rls, walk>>

Next == Create \/ CreateMany \/ Update \/ Delete \/ Upsert \/ Read \/ Settle

Spec == Init /\ [][Next]_vars


(***************************************************************************)
(* Policy engine (packages/core): masks                                    *)
(***************************************************************************)
\* a mask record: a function from field names to true or nested masks
Mask(m) == [t |-> "mask", m |-> m]

True == Bool(TRUE)

isMaskRecord(value) == value.t = "mask"

RECURSIVE cloneMask(_)
cloneMask(mask) ==
  Mask([key \in DOMAIN mask.m |->
         IF mask.m[key] = True THEN True
         ELSE IF isMaskRecord(mask.m[key]) THEN cloneMask(mask.m[key])
         ELSE True])

\* base and next are mask records or undefined.  The keys of next are
\* distinct, so the loop over Object.entries(next) is a key-wise definition.
RECURSIVE mergeMaskRecords(_,_)
mergeMaskRecords(base, next) ==
  IF next = Undef THEN (IF base # Undef THEN cloneMask(base) ELSE Undef)
  ELSE IF base = Undef THEN cloneMask(next)
  ELSE
    LET resultMask == cloneMask(base)
    IN Mask([key \in (DOMAIN base.m) \cup (DOMAIN next.m) |->
              IF key \notin DOMAIN next.m THEN resultMask.m[key]
              ELSE IF next.m[key] = True THEN True
              ELSE IF ~isMaskRecord(next.m[key]) THEN True
              ELSE IF key \notin DOMAIN resultMask.m THEN cloneMask(next.m[key])
              ELSE IF resultMask.m[key] = True THEN True
              ELSE mergeMaskRecords(resultMask.m[key], next.m[key])])

\* a merge that keeps the first mask it is given
mergeFirstOnly(base, next) == IF base # Undef THEN cloneMask(base) ELSE next

mergeActionMasks(base, next) == mergeMaskRecords(base, next)

\* a mask factory is undefined, a mask, or a function of the input
resolveMaskFactory(factory, input) ==
  IF factory = Undef THEN Undef
  ELSE IF factory.t = "fn" THEN factory.f[input]
  ELSE factory

(***************************************************************************)
(* Policy engine: rules and decisions                                      *)
(***************************************************************************)
DEFAULT_REASON == "DEFAULT_DENY"

Actions == {"post.read", "post.update"}

\* the inputs a predicate can tell apart
Inputs == {"i1", "i2"}

\* longest rule list of a policy
MaxRules == 3

\* a predicate: absent, boolean-valued (true on the inputs of `on`), or
\* returning match details with matches true on the inputs of `on`
WhenNone == [kind |-> "none"]

WhenBool(on) == [kind |-> "bool", on |-> on]

WhenDetails(on, reason, attrs, readMask, writeMask) ==
  [kind |-> "details", on |-> on, reason |-> reason, attrs |-> attrs,
   readMask |-> readMask, writeMask |-> writeMask]

Fields(S) == Mask([key \in S |-> True])

Rule(effect, action, when, reason, readMask, writeMask) ==
  [effect |-> effect, action |-> action, when |-> when, reason |-> reason,
   readMask |-> readMask, writeMask |-> writeMask]

\* the rules policies are built from; a rule's id is "r" and its position
RuleBodies ==
  { Rule("allow", Actions, WhenNone, Undef, Undef, Fields({"title"})),
    Rule("allow", {"post.update"}, WhenBool({"i1"}), Str("OWNER"),
         Fields({"title"}), Fields({"body"})),
    Rule("allow", {"post.read"},
         WhenDetails({"i1"}, Str("DETAIL"), Str("attrs-a"),
                     Mask([author |-> Fields({"name"})]), Undef),
         Str("STATIC"), Mask([author |-> True]), Undef),
    Rule("allow", Actions, WhenBool({"i2"}), Undef, Undef, Undef),
    Rule("allow", Actions,
         WhenDetails({"i1", "i2"}, Undef, Str("attrs-b"), Undef, Undef),
         Str("STATIC"),
         [t |-> "fn", f |-> [i \in Inputs |->
                              IF i = "i1" THEN Mask([author |-> Fields({"id"})])
                              ELSE Undef]],
         Undef),
    Rule("deny", Actions, WhenBool({"i2"}), Str("TENANT_MISMATCH"), Undef, Undef),
    Rule("deny", {"post.update"}, WhenNone, Undef, Undef, Undef),
    Rule("deny", {"post.read"},
         WhenDetails({"i1"}, Str("BLOCKED"), Undef, Undef, Undef),
         Undef, Fields({"title"}), Undef) }

RECURSIVE RuleLists(_)
RuleLists(n) ==
  IF n = 0 THEN {<< >>}
  ELSE RuleLists(n - 1)
       \cup { Append(l, b) : l \in { x \in RuleLists(n - 1) : Len(x) = n - 1 },
                             b \in RuleBodies }

WithIds(bodies) ==
  [i \in DOMAIN bodies |->
     [id |-> Str("r" \o ToString(i))] @@ bodies[i]]

Decision(allow, reason, matchedRule, effect, attrs, action, readMask, writeMask) ==
  [allow |-> allow, reason |-> reason, matchedRule |-> matchedRule,
   effect |-> effect, attrs |-> attrs, context |-> [action |-> action],
   readMask |-> readMask, writeMask |-> writeMask]

\* config.defaultDecision: undefined, or a decision value that may leave
\* effect and context out
DefaultDecisions ==
  { Undef,
    [allow |-> TRUE, reason |-> Str("OPEN"), matchedRule |-> Undef,
     effect |-> Undef, attrs |-> Undef, context |-> Undef,
     readMask |-> Undef, writeMask |-> Undef] }

\* details: Undef or the match details returned by the predicate
buildDecision(rule, action, input, details) ==
  LET ruleReadMask == resolveMaskFactory(rule.readMask, input)
      ruleWriteMask == resolveMaskFactory(rule.writeMask, input)
      combinedReadMask ==
        mergeActionMasks(IF details = Undef THEN Undef ELSE details.readMask,
                         ruleReadMask)
      combinedWriteMask ==
        mergeActionMasks(IF details = Undef THEN Undef ELSE details.writeMask,
                         ruleWriteMask)
      reason == IF details # Undef /\ details.reason # Undef
                  THEN details.reason ELSE rule.reason
  IN Decision(rule.effect = "allow", reason, rule.id, Str(rule.effect),
              IF details # Undef THEN details.attrs ELSE Undef,
              action, combinedReadMask, combinedWriteMask)

\* Undef when the rule does not apply
evaluateRule(rule, action, input) ==
  IF action \notin rule.action THEN Undef
  ELSE IF rule.when.kind = "none" THEN buildDecision(rule, action, input, Undef)
  ELSE IF rule.when.kind = "bool"
    THEN IF input \in rule.when.on
           THEN buildDecision(rule, action, input, Undef) ELSE Undef
  ELSE IF input \notin rule.when.on THEN Undef
  ELSE buildDecision(rule, action, input, rule.when)

normaliseDecision(factory, action) ==
  [factory EXCEPT
     !.effect = IF factory.effect # Undef THEN factory.effect ELSE Str("default"),
     !.context = IF factory.context # Undef THEN factory.context
                 ELSE [action |-> action]]

\* a default that lets the action through
builtinDefaultOpen(action) ==
  Decision(TRUE, Undef, Undef, Str("default"), Undef, action, Undef, Undef)

\* the default decision of definePolicy when config.defaultDecision is absent
builtinDefault(action) ==
  Decision(FALSE, Str(DEFAULT_REASON), Undef, Str("default"), Undef, action,
           Undef, Undef)

\* the loop with its early return left out
deniesNever(d) == FALSE

\* if (!decision.allow) return decision
denies(d) == ~d.allow

\* the latest allow decision replaces the one kept
lastAllowOf(firstAllow, d) == d

\* if (!firstAllow) firstAllow = decision
firstAllowOf(firstAllow, d) == IF firstAllow = Undef THEN d ELSE firstAllow

\* the functions of a rule that evaluateRule and buildDecision invoke, in
\* the order of the calls: the predicate when the rule is for the action,
\* then the mask factories that are functions when the rule matches
invocationsOf(rule, action, input) ==
  IF action \notin rule.action THEN << >>
  ELSE (IF rule.when.kind = "none" THEN << >>
        ELSE << [rule |-> rule.id, fn |-> "when"] >>)
       \o (IF evaluateRule(rule, action, input) = Undef THEN << >>
           ELSE (IF rule.readMask.t = "fn"
                   THEN << [rule |-> rule.id, fn |-> "readMask"] >> ELSE << >>)
                \o (IF rule.writeMask.t = "fn"
                      THEN << [rule |-> rule.id, fn |-> "writeMask"] >>
                      ELSE << >>))

\* the for loop of checkDetailed from rule i on, with its three locals;
\* calls is the sequence of the functions of the rules invoked so far
RECURSIVE rulesLoop(_,_,_,_,_,_,_,_)
rulesLoop(rules, action, input, i, firstAllow, aggregatedReadMask, aggregatedWriteMask, calls) ==
  IF i > Len(rules)
    THEN [returned |-> FALSE, firstAllow |-> firstAllow,
          readMask |-> aggregatedReadMask, writeMask |-> aggregatedWriteMask,
          calls |-> calls]
  ELSE
    LET d == evaluateRule(rules[i], action, input)
        called == calls \o invocationsOf(rules[i], action, input)
    IN IF d = Undef
         THEN rulesLoop(rules, action, input, i + 1, firstAllow,
                        aggregatedReadMask, aggregatedWriteMask, called)
       ELSE IF denies(d) THEN [returned |-> TRUE, decision |-> d,
                               calls |-> called]
       ELSE rulesLoop(rules, action, input, i + 1,
                      firstAllowOf(firstAllow, d),
                      mergeActionMasks(aggregatedReadMask, d.readMask),
                      mergeActionMasks(aggregatedWriteMask, d.writeMask),
                      called)

checkDetailed(p, action, input) ==
  LET l == rulesLoop(p.rules, action, input, 1, Undef, Undef, Undef, << >>)
  IN IF l.returned THEN l.decision
     ELSE IF l.firstAllow # Undef
       THEN IF l.readMask = Undef /\ l.writeMask = Undef THEN l.firstAllow
            ELSE [l.firstAllow EXCEPT
                    !.readMask = IF l.readMask # Undef THEN l.readMask ELSE @,
                    !.writeMask = IF l.writeMask # Undef THEN l.writeMask ELSE @]
     ELSE IF p.defaultDecision = Undef
       THEN normaliseDecision(builtinDefault(action), action)
     ELSE normaliseDecision(p.defaultDecision, action)

\* the functions of the rules that one call of checkDetailed invokes
invoked(p, action, input) ==
  rulesLoop(p.rules, action, input, 1, Undef, Undef, Undef, << >>).calls

check(p, action, input) == checkDetailed(p, action, input).allow

(***************************************************************************)
(* The policy as a state machine                                           *)
(***************************************************************************)
\* definePolicy(config): the rule list is copied, the default kept
definePolicy(config) ==
  [rules |-> config.rules, defaultDecision |-> config.defaultDecision]

PolicyConfigs ==
  { [rules |-> WithIds(l), defaultDecision |-> dd] :
    l \in RuleLists(MaxRules), dd \in DefaultDecisions }

PolicyInit ==
  /\ policy \in { definePolicy(c) : c \in PolicyConfigs }
  /\ pcall = NoCall
  /\ decision = NoCall
  /\ guard = [tenantId |-> TenantA, mode |-> "strict", rlsEnabled |-> FALSE,
              onWarn |-> FALSE]
  /\ call = NoCall
  /\ result = R(Undef, << >>, NoError)
  /\ warnings = << >>
  /\ forwarded = NotForwarded
  /\ heap = << >>
  /\ mcall = NoCall
  /\ merged = NoCall
  /\ rls = NoCall
  /\ walk = NoCall

CheckDetailed ==
  \E action \in Actions, input \in Inputs :
    /\ pcall = NoCall
    /\ pcall' = [operation |-> "checkDetailed", action |-> action,
                 input |-> input, invoked |-> invoked(policy, action, input)]
    /\ decision' = checkDetailed(policy, action, input)
    /\ UNCHANGED <<policy, guardVars, mergeVars, rls, walk>>

Check ==
  \E action \in Actions, input \in Inputs :
    /\ pcall = NoCall
    /\ pcall' = [operation |-> "check", action |-> action, input |-> input,
                 invoked |-> invoked(policy, action, input)]
    /\ decision' = Bool(check(policy, action, input))
    /\ UNCHANGED <<policy, guardVars, mergeVars, rls, walk>>

\* the caller has taken the decision; the policy is ready for the next call
Return ==
  /\ pcall # NoCall
  /\ pcall' = NoCall
  /\ decision' = NoCall
  /\ UNCHANGED <<policy, guardVars, mergeVars, rls, walk>>

PolicyNext == CheckDetailed \/ Check \/ Return

PolicySpec == PolicyInit /\ [][PolicyNext]_vars


(***************************************************************************)
(* Mask merging on objects with identity                                   *)
(*                                                                         *)
(* A mask object lives at an address of the heap; a key of an object holds *)
(* true or a reference to another object.  cloneMask and mergeMaskRecords  *)
(* are modelled with the objects they allocate and the writes they make.   *)
(***************************************************************************)
Ref(a) == [t |-> "ref", a |-> a]

IsRef(v) == v.t = "ref"

EmptyObject == [key \in {} |-> True]

\* result[key] = v
SetKey(obj, key, v) ==
  [x \in DOMAIN obj \cup {key} |-> IF x = key THEN v ELSE obj[x]]

\* delete obj[key]
DeleteKey(obj, key) == [x \in DOMAIN obj \ {key} |-> obj[x]]

\* a clone that hands back the object it was given
cloneMaskShared(h, mask) == [h |-> h, v |-> mask]

\* a copy that sets every key to true
cloneEntriesFlat(h, mask, resultRef, keys) ==
  [h |-> [h EXCEPT ![resultRef] = [key \in keys |-> True]], v |-> Ref(resultRef)]

\* cloneMask(mask): the loop over Object.entries(mask), keys being the keys
\* not copied yet and resultRef the address of the new object
RECURSIVE cloneEntries(_,_,_,_), cloneMaskRef(_,_)
cloneEntries(h, mask, resultRef, keys) ==
  IF keys = {} THEN [h |-> h, v |-> Ref(resultRef)]
  ELSE
    LET key == CHOOSE k \in keys : TRUE
        set(h2, v) ==
          cloneEntries([h2 EXCEPT ![resultRef] = SetKey(@, key, v)], mask, resultRef,
                       keys \ {key})
        nested(c) == set(c.h, c.v)
    IN IF h[mask.a][key] = True THEN set(h, True)
       ELSE IF IsRef(h[mask.a][key]) THEN nested(cloneMaskRef(h, h[mask.a][key]))
       ELSE set(h, True)

\* const result = {}; ...; return result
cloneMaskRef(h, mask) ==
  cloneEntries(Append(h, EmptyObject), mask, Len(h) + 1, DOMAIN h[mask.a])

\* a merge in which the mask given last replaces the one before
mergeLastWins(h, base, next) ==
  IF next # Undef THEN cloneMaskRef(h, next)
  ELSE IF base # Undef THEN cloneMaskRef(h, base)
  ELSE [h |-> h, v |-> Undef]

\* a loop that writes true where both sides hold a mask
RECURSIVE mergeEntriesCollapsing(_,_,_,_)
mergeEntriesCollapsing(h, resultRef, next, keys) ==
  IF keys = {} THEN [h |-> h, v |-> Ref(resultRef)]
  ELSE
    LET key == CHOOSE k \in keys : TRUE
        set(h2, v) ==
          mergeEntriesCollapsing([h2 EXCEPT ![resultRef] = SetKey(@, key, v)],
                                 resultRef, next, keys \ {key})
        assign(c) == set(c.h, c.v)
    IN IF IsRef(h[next.a][key]) /\ key \notin DOMAIN h[resultRef]
         THEN assign(cloneMaskRef(h, h[next.a][key]))
       ELSE set(h, True)

\* mergeMaskRecords(base, next) on references: base and next are undefined
\* or references; mergeEntries is the loop over Object.entries(next)
RECURSIVE mergeEntries(_,_,_,_), mergeMaskRecordsRef(_,_,_)
mergeEntries(h, resultRef, next, keys) ==
  IF keys = {} THEN [h |-> h, v |-> Ref(resultRef)]
  ELSE
    LET key == CHOOSE k \in keys : TRUE
        value == h[next.a][key]
        continue(h2) == mergeEntries(h2, resultRef, next, keys \ {key})
        set(h2, v) == continue([h2 EXCEPT ![resultRef] = SetKey(@, key, v)])
        assign(c) == set(c.h, c.v)
    IN IF value = True THEN set(h, True)
       ELSE IF ~IsRef(value) THEN set(h, True)
       ELSE IF key \notin DOMAIN h[resultRef] THEN assign(cloneMaskRef(h, value))
       ELSE IF h[resultRef][key] = True THEN continue(h)
       ELSE IF IsRef(h[resultRef][key])
         THEN assign(mergeMaskRecordsRef(h, h[resultRef][key], value))
       ELSE assign(cloneMaskRef(h, value))

mergeMaskRecordsRef(h, base, next) ==
  IF next = Undef
    THEN (IF base # Undef THEN cloneMaskRef(h, base) ELSE [h |-> h, v |-> Undef])
  ELSE IF base = Undef THEN cloneMaskRef(h, next)
  ELSE
    LET loop(c) == mergeEntries(c.h, c.v.a, next, DOMAIN c.h[next.a])
    IN loop(cloneMaskRef(h, base))

\* the mask value held at v: undefined, true, or the tree under a reference
RECURSIVE Value(_,_)
Value(h, v) ==
  IF IsRef(v) THEN Mask([key \in DOMAIN h[v.a] |-> Value(h, h[v.a][key])])
  ELSE v

\* the addresses of the objects reachable from v
RECURSIVE Reach(_,_)
Reach(h, v) ==
  IF IsRef(v)
    THEN {v.a} \cup UNION { Reach(h, h[v.a][key]) : key \in DOMAIN h[v.a] }
  ELSE {}

(***************************************************************************)
(* Masks given to merge                                                    *)
(***************************************************************************)
MaskKeys == {"author", "title"}

\* deepest nesting of a mask given to merge
MaxMaskDepth == 2

\* masks of depth at most d: "author" holds true or any mask of depth d - 1,
\* "title" holds true or, in a mask of depth two or more, the mask {id}
RECURSIVE MaskValues(_)
MaskValues(d) ==
  IF d = 0 THEN {}
  ELSE
    LET below == MaskValues(d - 1)
        entry(key) == IF key = "author" THEN {True} \cup below
                      ELSE IF d > 1 THEN {True, Fields({"id"})} ELSE {True}
    IN UNION { { Mask(f) : f \in { g \in [S -> {True, Fields({"id"})} \cup below] :
                                     \A key \in S : g[key] \in entry(key) } } :
               S \in SUBSET MaskKeys }

\* the objects of the mask value m are put on the heap, children first; with
\* share, an object equal to one already there is that same object
RECURSIVE allocKeys(_,_,_,_,_), alloc(_,_,_)
allocKeys(h, obj, m, keys, share) ==
  IF keys = {} THEN [h |-> Append(h, obj), v |-> Ref(Len(h) + 1)]
  ELSE
    LET key == CHOOSE k \in keys : TRUE
        put(h2, v) == allocKeys(h2, SetKey(obj, key, v), m, keys \ {key}, share)
        nested(c) == put(c.h, c.v)
    IN IF m.m[key] = True THEN put(h, True)
       ELSE nested(alloc(h, m.m[key], share))

alloc(h, m, share) ==
  IF m = Undef THEN [h |-> h, v |-> Undef]
  ELSE IF share /\ \E a \in DOMAIN h : Value(h, Ref(a)) = m
    THEN [h |-> h, v |-> Ref(CHOOSE a \in DOMAIN h : Value(h, Ref(a)) = m)]
  ELSE allocKeys(h, EmptyObject, m, DOMAIN m.m, share)

(***************************************************************************)
(* merge as a state machine: a call of mergeMaskRecords on two given masks *)
(* and a caller that then writes to the mask it got back; the call keeps   *)
(* the values of the two masks as they were when it was made               *)
(***************************************************************************)
MergeInit ==
  /\ \E b \in MaskValues(MaxMaskDepth) \cup {Undef},
        n \in MaskValues(MaxMaskDepth) \cup {Undef},
        share \in BOOLEAN :
       LET given(hb) ==
             LET both(hn) ==
                   /\ heap = hn.h
                   /\ mcall = [operation |-> "given", base |-> hb.v,
                               next |-> hn.v, baseValue |-> b,
                               nextValue |-> n]
             IN both(alloc(hb.h, n, share))
       IN given(alloc(<< >>, b, share))
  /\ merged = NoCall
  /\ rls = NoCall
  /\ walk = NoCall
  /\ policy = << >>
  /\ pcall = NoCall
  /\ decision = NoCall
  /\ guard = [tenantId |-> TenantA, mode |-> "strict", rlsEnabled |-> FALSE,
              onWarn |-> FALSE]
  /\ call = NoCall
  /\ result = R(Undef, << >>, NoError)
  /\ warnings = << >>
  /\ forwarded = NotForwarded

\* const merged = mergeMaskRecords(base, next)
Merge ==
  /\ mcall.operation = "given"
  /\ mcall' = [mcall EXCEPT !.operation = "mergeMaskRecords"]
  /\ LET return(r) ==
           /\ heap' = r.h
           /\ merged' = [operation |-> "returned", v |-> r.v]
     IN return(mergeMaskRecordsRef(heap, mcall.base, mcall.next))
  /\ UNCHANGED <<guardVars, policyVars, rls, walk>>

\* the caller writes to an object of the mask it got back: it sets a key to
\* true or deletes it
Mutate ==
  /\ merged.operation = "returned"
  /\ \E a \in Reach(heap, merged.v), key \in MaskKeys \cup {"id"} :
       \/ heap' = [heap EXCEPT ![a] = SetKey(@, key, True)]
       \/ heap' = [heap EXCEPT ![a] = DeleteKey(@, key)]
  /\ merged' = [merged EXCEPT !.operation = "mutated"]
  /\ UNCHANGED <<mcall, guardVars, policyVars, rls, walk>>

MergeNext == Merge \/ Mutate

MergeSpec == MergeInit /\ [][MergeNext]_vars



(***************************************************************************)
(* Properties of the policy engine                                         *)
(***************************************************************************)
\* a rule matches an action and input when the action is in its action
\* list and its predicate, if any, accepts the input
Matches(rule, action, input) ==
  /\ action \in rule.action
  /\ rule.when.kind # "none" => input \in rule.when.on

MatchingRules(effect) ==
  { i \in DOMAIN policy.rules :
      /\ policy.rules[i].effect = effect
      /\ Matches(policy.rules[i], pcall.action, pcall.input) }

Detailed == pcall # NoCall /\ pcall.operation = "checkDetailed"

Least(S) == CHOOSE i \in S : \A j \in S : i <= j

\* C2: when at least one deny rule and at least one allow rule match the
\* action and input, in whatever declaration order, checkDetailed returns
\* allow = false, effect 'deny' and the id of the first matching deny rule.
C2_DenyWins ==
  (Detailed /\ MatchingRules("deny") # {} /\ MatchingRules("allow") # {})
    => /\ decision.allow = FALSE
       /\ decision.effect = Str("deny")
       /\ decision.matchedRule = policy.rules[Least(MatchingRules("deny"))].id

\* a matching allow rule is declared before the matching deny rule
C2_Witness ==
  /\ Detailed
  /\ MatchingRules("deny") # {} /\ MatchingRules("allow") # {}
  /\ Least(MatchingRules("allow")) < Least(MatchingRules("deny"))
  /\ Cardinality(MatchingRules("deny")) = 2
  /\ decision.allow = FALSE

\* C3: with no defaultDecision configured and no rule matching the action
\* and input, checkDetailed returns allow = false, reason 'DEFAULT_DENY',
\* effect 'default' and no matchedRule.
C3_DefaultDeny ==
  (/\ Detailed
   /\ policy.defaultDecision = Undef
   /\ MatchingRules("deny") = {} /\ MatchingRules("allow") = {})
    => /\ decision.allow = FALSE
       /\ decision.reason = Str("DEFAULT_DENY")
       /\ decision.effect = Str("default")
       /\ decision.matchedRule = Undef

\* rules exist, but none is for the action or none accepts the input
C3_Witness ==
  /\ Detailed
  /\ policy.defaultDecision = Undef
  /\ Len(policy.rules) = 2
  /\ \E i \in DOMAIN policy.rules : pcall.action \in policy.rules[i].action
  /\ \E i \in DOMAIN policy.rules : pcall.action \notin policy.rules[i].action
  /\ MatchingRules("deny") = {} /\ MatchingRules("allow") = {}
  /\ decision.reason = Str("DEFAULT_DENY")


(***************************************************************************)
(* Properties of the tenant guard                                          *)
(***************************************************************************)
Intercepted == call # NoCall /\ call.operation \in WRITE_OPERATIONS

Returned == Intercepted /\ result.err = NoError

OwnTenant == Str(TenantA)

\* the names under which the metadata keeps a tenant
TenantFieldNames == {"tenantId", "orgId"}

\* some object of the tree names a tenant other than the guard's
RECURSIVE CarriesForeignTenant(_)
CarriesForeignTenant(value) ==
  IF IsArray(value)
    THEN \E i \in DOMAIN value.e : CarriesForeignTenant(value.e[i])
  ELSE IF ~isPlainObject(value) THEN FALSE
  ELSE \E i \in DOMAIN value.kv :
         \/ /\ value.kv[i][1] \in TenantFieldNames
            /\ value.kv[i][2] \notin {Undef, OwnTenant}
         \/ CarriesForeignTenant(value.kv[i][2])

\* C1: in every mode and for every intercepted write, when enforce returns
\* without throwing, no payload and no selector of the returned args, at any
\* depth, carries a tenant other than the guard's tenantId.
C1_ReturnedArgsOwnTenantOnly ==
  Returned => ~CarriesForeignTenant(result.v)

WhereOperations == {"update", "delete", "updateMany", "deleteMany", "upsert"}

\* a where clause with neither the tenant field nor a composite selector
UnscopedWhere(model, where) ==
  /\ isPlainObject(where)
  /\ ~HasKey(where, getTenantField(model))
  /\ ~( getCompositeSelector(model) # ""
        /\ isPlainObject(Get(where, getCompositeSelector(model))) )

WhereWarnings ==
  { i \in DOMAIN warnings :
      /\ warnings[i].code = "INJECT_TENANT_WHERE"
      /\ warnings[i].path = call.model \o ".where" }

\* C7: for a top-level update, delete, updateMany, deleteMany or upsert whose
\* where clause has neither the tenant field nor a composite-selector
\* object: assist mode sets the tenant field of the where clause to the
\* configured tenant and emits one INJECT_TENANT_WHERE warning for it;
\* assert and strict mode throw WHERE_TENANT_MISSING and the query is not
\* called.
C7_UnscopedWhere ==
  (/\ Intercepted
   /\ call.operation \in WhereOperations
   /\ UnscopedWhere(call.model, Get(call.args, "where")))
    => IF guard.mode = "assist"
         THEN /\ Get(Get(result.v, "where"), getTenantField(call.model))
                   = OwnTenant
              /\ guard.onWarn =>
                   /\ Cardinality(WhereWarnings) = 1
                   /\ warnings[1] = [code |-> "INJECT_TENANT_WHERE",
                                     model |-> call.model,
                                     operation |-> call.operation,
                                     path |-> call.model \o ".where"]
         ELSE /\ result.err.code = "WHERE_TENANT_MISSING"
              /\ result.err.path = call.model \o ".where"
              /\ result.err.operation = call.operation
              /\ forwarded = NotForwarded
              /\ result.v = call.args

\* assist mode rewrites the where of an update that also rewrites a nested
\* where, and a strict guard rejects the same kind of call
C7_Witness ==
  /\ Intercepted
  /\ call.operation = "update"
  /\ UnscopedWhere(call.model, Get(call.args, "where"))
  /\ guard.mode = "assist" /\ guard.onWarn
  /\ Len(warnings) = 2
  /\ warnings[2].code = "INJECT_TENANT_WHERE"
  /\ Get(Get(forwarded, "where"), "tenantId") = OwnTenant

C7_WitnessReject ==
  /\ Intercepted
  /\ call.operation = "deleteMany"
  /\ UnscopedWhere(call.model, Get(call.args, "where"))
  /\ guard.mode = "assert"
  /\ result.err.code = "WHERE_TENANT_MISSING"


(***************************************************************************)
(* The rows a call creates or updates, read off the args tree: the         *)
(* top-level payloads, and below every row the rows of the nested create   *)
(* and createMany operations of its declared relations, in reading order   *)
(* (a row before the rows nested in it, list elements by index, relation   *)
(* fields in metadata order, operations in key order).                     *)
(***************************************************************************)
\* the bracketed suffix of the list element at one-based position i
Index == <<"[0]", "[1]", "[2]", "[3]", "[4]", "[5]">>

\* the target model the metadata names for an operation on a relation
\* field, "" when it names none
TargetOf(model, field, op) ==
  LET nt == getNestedTargets(model)
      S == { i \in DOMAIN nt : nt[i][1] = field }
  IN IF S = {} THEN ""
     ELSE resolveTargetModel(model, field, nt[CHOOSE i \in S : TRUE][2], op)

RowEntry(model, kind, row, path, nested) ==
  [model |-> model, kind |-> kind, row |-> row, path |-> path,
   nested |-> nested]

RECURSIVE RowsAt(_,_,_,_,_), ListRows(_,_,_,_,_,_), FieldRows(_,_,_,_),
          PayloadRows(_,_,_,_), PayloadListRows(_,_,_,_,_), OpRows(_,_,_,_,_)

RowsAt(model, kind, value, path, nested) ==
  IF IsArray(value) THEN ListRows(model, kind, value.e, path, nested, 1)
  ELSE IF ~isPlainObject(value)
    THEN << RowEntry(model, kind, value, path, nested) >>
  ELSE << RowEntry(model, kind, value, path, nested) >>
       \o FieldRows(model, value, path, 1)

ListRows(model, kind, e, path, nested, i) ==
  IF i > Len(e) THEN << >>
  ELSE RowsAt(model, kind, e[i], path \o Index[i], nested)
       \o ListRows(model, kind, e, path, nested, i + 1)

FieldRows(model, row, path, i) ==
  IF i > Len(getNestedTargets(model)) THEN << >>
  ELSE
    LET field == getNestedTargets(model)[i][1]
    IN (IF HasKey(row, field)
          THEN PayloadRows(model, field, Get(row, field), path \o "." \o field)
          ELSE << >>)
       \o FieldRows(model, row, path, i + 1)

PayloadRows(model, field, payload, path) ==
  IF IsArray(payload) THEN PayloadListRows(model, field, payload.e, path, 1)
  ELSE IF ~isPlainObject(payload) THEN << >>
  ELSE OpRows(model, field, payload, path, 1)

PayloadListRows(model, field, e, path, i) ==
  IF i > Len(e) THEN << >>
  ELSE PayloadRows(model, field, e[i], path \o Index[i])
       \o PayloadListRows(model, field, e, path, i + 1)

OpRows(model, field, payload, path, i) ==
  IF i > Len(payload.kv) THEN << >>
  ELSE
    LET op == payload.kv[i][1]
        value == payload.kv[i][2]
        target == TargetOf(model, field, op)
    IN (IF op = "create" /\ target # ""
          THEN RowsAt(target, "create", value, path \o ".create", TRUE)
        ELSE IF op = "createMany" /\ target # "" /\ isPlainObject(value)
          THEN RowsAt(target, "create", Get(value, "data"),
                      path \o ".createMany.data", TRUE)
        ELSE << >>)
       \o OpRows(model, field, payload, path, i + 1)

\* the rows of a call with the given args
RowsOf(model, operation, args) ==
  CASE operation = "create" ->
         RowsAt(model, "create", Get(args, "data"), model \o ".data", FALSE)
    [] operation = "createMany" ->
         IF IsArray(Get(args, "data"))
           THEN RowsAt(model, "create", Get(args, "data"), model \o ".data",
                       FALSE)
         ELSE IF isPlainObject(Get(args, "data"))
                 /\ IsArray(Get(Get(args, "data"), "data"))
           THEN RowsAt(model, "create", Get(Get(args, "data"), "data"),
                       model \o ".data.data", FALSE)
         ELSE << >>
    [] operation \in {"update", "updateMany"} ->
         RowsAt(model, "update", Get(args, "data"), model \o ".data", FALSE)
    [] operation = "upsert" ->
         RowsAt(model, "create", Get(args, "create"), model \o ".create", FALSE)
         \o RowsAt(model, "update", Get(args, "update"), model \o ".update",
                   FALSE)
    [] OTHER -> << >>

CallRows == RowsOf(call.model, call.operation, call.args)

ResultRows == RowsOf(call.model, call.operation, result.v)

RowPaths(rows) == { rows[i].path : i \in DOMAIN rows }

\* the tenant a row names, Undef when it names none
TenantOf(e) ==
  IF isPlainObject(e.row) THEN Get(e.row, getTenantField(e.model)) ELSE Undef

Differs(e) == TenantOf(e) \notin {Undef, OwnTenant}

Lacks(e) == e.kind = "create" /\ TenantOf(e) = Undef

\* a row the guard has to reject: a foreign tenant, or a created row
\* without tenant outside assist mode
Rejected(e) == Differs(e) \/ (Lacks(e) /\ guard.mode # "assist")

\* positions of the rejected rows, and the first of them
RejectedRows(rows) == { i \in DOMAIN rows : Rejected(rows[i]) }

FirstRejected(rows, i) ==
  /\ Rejected(rows[i])
  /\ \A j \in 1..(i - 1) : ~Rejected(rows[j])

MismatchOf(e) ==
  [code |-> "TENANT_MISMATCH", model |-> e.model, operation |-> e.kind,
   path |-> e.path, expectedTenant |-> TenantA, actualTenant |-> TenantOf(e)]

FieldMissingOf(e) ==
  [code |-> "TENANT_FIELD_MISSING", model |-> e.model,
   operation |-> IF isPlainObject(e.row) THEN e.kind ELSE "$unknown",
   path |-> e.path, expectedTenant |-> TenantA, actualTenant |-> Undef]

\* a where clause that passes: it names the guard's tenant, directly or in
\* its composite selector, or assist mode can add the tenant
WhereAccepted(model, where) ==
  /\ isPlainObject(where)
  /\ LET t == Get(where, getTenantField(model))
         cs == getCompositeSelector(model)
         c == Get(where, cs)
     IN IF t # Undef THEN t = OwnTenant
        ELSE IF cs # "" /\ isPlainObject(c)
          THEN \/ Get(c, getTenantField(model)) = OwnTenant
               \/ Get(c, getTenantField(model)) = Undef /\ guard.mode = "assist"
        ELSE guard.mode = "assist"

TopWhereAccepted ==
  \/ call.operation \in {"create", "createMany"}
  \/ WhereAccepted(call.model, Get(call.args, "where"))

Rejects == Threw(result) /\ forwarded = NotForwarded

\* no object of the tree carries a relation operation other than create and
\* createMany
RECURSIVE CreatesOnly(_)
CreatesOnly(value) ==
  IF IsArray(value) THEN \A i \in DOMAIN value.e : CreatesOnly(value.e[i])
  ELSE IF ~isPlainObject(value) THEN TRUE
  ELSE \A i \in DOMAIN value.kv :
         /\ value.kv[i][1] \notin RELATION_OPERATIONS \ {"create", "createMany"}
         /\ CreatesOnly(value.kv[i][2])

\* the guard asks for relation metadata: strict mode without RLS
NeedsMeta == guard.mode = "strict" /\ ~guard.rlsEnabled

\* a create whose walk checks rows only: no where clause, no selector, and
\* no metadata requirement
RowChecksOnly ==
  /\ call.operation = "create"
  /\ CreatesOnly(Get(call.args, "data"))
  /\ ~NeedsMeta

\* C4 as first stated: any top-level create or update payload naming another
\* tenant makes enforce throw TENANT_MISMATCH with the offending and the
\* configured tenant, unrewritten and without calling the query.
C4_MismatchAlwaysReported ==
  Intercepted =>
    LET rows == CallRows
    IN \A i \in DOMAIN rows :
         (~rows[i].nested /\ Differs(rows[i])) =>
           /\ result.err.code = "TENANT_MISMATCH"
           /\ result.err.actualTenant = TenantOf(rows[i])
           /\ result.err.expectedTenant = TenantA
           /\ TenantOf(ResultRows[i]) = TenantOf(rows[i])
           /\ forwarded = NotForwarded

\* C4: in every mode, a top-level create or update payload (the data of
\* create, update and updateMany, either branch of upsert, an element of a
\* createMany list) whose tenant field is present and differs from the
\* configured tenantId makes enforce throw; the value is never rewritten and
\* the query is never called.  The error is TENANT_MISMATCH with the
\* payload's path, actualTenant the offending value and expectedTenant the
\* configured tenant when the payload is the first row the walk rejects and
\* no where clause or relation check throws before it: always for create,
\* and for update and updateMany whenever the where clause is accepted.
C4_Mismatch ==
  Intercepted =>
    LET rows == CallRows
    IN \A i \in DOMAIN rows :
         (~rows[i].nested /\ Differs(rows[i])) =>
           /\ Rejects
           /\ TenantOf(ResultRows[i]) = TenantOf(rows[i])
           /\ FirstRejected(rows, i) =>
                \/ result.err = MismatchOf(rows[i])
                \/ result.err.path \notin RowPaths(rows)
           /\ (call.operation \in {"create", "update", "updateMany"}
               /\ TopWhereAccepted /\ i = 1) =>
                result.err = MismatchOf(rows[i])

\* an assist-mode update whose where clause was completed and whose data
\* names the foreign tenant
C4_Witness ==
  /\ Intercepted
  /\ call.operation = "update"
  /\ guard.mode = "assist"
  /\ UnscopedWhere(call.model, Get(call.args, "where"))
  /\ Get(Get(call.args, "data"), "tenantId") = Str(TenantB)
  /\ result.err.code = "TENANT_MISMATCH"
  /\ result.err.path = "Post.data"
  /\ result.err.actualTenant = Str(TenantB)
  /\ forwarded = NotForwarded


\* an assist-mode create whose data object does not name the tenant
AssistCreateLacking ==
  /\ Intercepted
  /\ call.operation = "create"
  /\ guard.mode = "assist"
  /\ isPlainObject(Get(call.args, "data"))
  /\ ~HasKey(Get(call.args, "data"), getTenantField(call.model))

InjectFieldWarning ==
  [code |-> "INJECT_TENANT_FIELD", model |-> call.model,
   operation |-> "create", path |-> call.model \o ".data"]

\* the data object of the result names the guard's tenant
DataInjected ==
  Get(Get(result.v, "data"), getTenantField(call.model)) = OwnTenant

\* C5 as first stated: the assist-mode create without tenant field gets the
\* field injected, warns, and is always forwarded rewritten.
C5_InjectAlwaysForwards ==
  AssistCreateLacking =>
    /\ DataInjected
    /\ guard.onWarn => \E i \in DOMAIN warnings : warnings[i] = InjectFieldWarning
    /\ forwarded = result.v
    /\ forwarded # NotForwarded

\* C5: in assist mode, enforce on a create whose data object lacks the
\* model's tenant field sets that field in place to the configured tenantId
\* and hands onWarn, as the first warning of the call, INJECT_TENANT_FIELD
\* for the data path; the rewritten args are forwarded to the query unless a
\* check below the data object (a nested relation) throws, in which case
\* nothing is forwarded.  Data without relation operations is always
\* forwarded.
C5_AssistInject ==
  AssistCreateLacking =>
    /\ DataInjected
    /\ guard.onWarn => (Len(warnings) >= 1 /\ warnings[1] = InjectFieldWarning)
    /\ ~guard.onWarn => warnings = << >>
    /\ IF Threw(result)
         THEN /\ forwarded = NotForwarded
              /\ result.err.path # call.model \o ".data"
              /\ \E k \in DOMAIN Get(call.args, "data").kv :
                   hasRelationOperations(Get(call.args, "data").kv[k][2])
         ELSE /\ forwarded = result.v
              /\ Get(Get(forwarded, "data"), getTenantField(call.model))
                   = OwnTenant

\* the empty data object is completed, reported and forwarded
C5_Witness ==
  /\ AssistCreateLacking
  /\ guard.onWarn
  /\ call.args = Obj(<< <<"data", Obj(<< >>)>> >>)
  /\ forwarded = Obj(<< <<"data", Obj(<< <<"tenantId", Str(TenantA)>> >>)>> >>)
  /\ warnings = << InjectFieldWarning >>

\* the data object is completed and reported, then a nested row of the
\* foreign tenant stops the call
C5_WitnessNestedThrow ==
  /\ AssistCreateLacking
  /\ guard.onWarn
  /\ DataInjected
  /\ warnings[1] = InjectFieldWarning
  /\ result.err.code = "TENANT_MISMATCH"
  /\ forwarded = NotForwarded

\* the payloads that create a row: not the update payloads
CreatesRow(e) == e.kind = "create" /\ isPlainObject(e.row)

\* C6 as first stated: in assert and strict mode every row-creating payload
\* without tenant field makes enforce throw TENANT_FIELD_MISSING, with
\* nothing injected and the query not called.
C6_FieldMissingAlwaysReported ==
  (Intercepted /\ guard.mode \in {"assert", "strict"}) =>
    LET rows == CallRows
    IN \A i \in DOMAIN rows :
         (CreatesRow(rows[i]) /\ Lacks(rows[i])) =>
           /\ result.err.code = "TENANT_FIELD_MISSING"
           /\ result.v = call.args
           /\ forwarded = NotForwarded

\* C6: in assert and strict mode, a payload that creates a row (top-level
\* create, upsert create branch, element of a createMany list, nested create
\* or createMany under a declared relation whose target model resolves for
\* the operation) and lacks the tenant field makes enforce throw; nothing is
\* injected and the query is never called.  The error is
\* TENANT_FIELD_MISSING with that payload's path when the payload is the
\* first row the walk rejects and no where clause or relation check throws
\* before it: always for the data of a top-level create, and for every
\* row of a create whose relations carry nested creates only.
C6_FieldMissing ==
  (Intercepted /\ guard.mode \in {"assert", "strict"}) =>
    LET rows == CallRows
    IN \A i \in DOMAIN rows :
         (CreatesRow(rows[i]) /\ Lacks(rows[i])) =>
           /\ Rejects
           /\ result.v = call.args
           /\ warnings = << >>
           /\ FirstRejected(rows, i) =>
                \/ result.err = FieldMissingOf(rows[i])
                \/ result.err.path \notin RowPaths(rows)
           /\ (call.operation = "create" /\ i = 1) =>
                result.err = FieldMissingOf(rows[i])
           /\ (FirstRejected(rows, i) /\ RowChecksOnly) =>
                result.err = FieldMissingOf(rows[i])

\* an assert-mode create is stopped at a nested createMany row without
\* tenant, the second of its list
C6_Witness ==
  /\ Intercepted
  /\ guard.mode = "assert"
  /\ call.operation = "create"
  /\ result.err.code = "TENANT_FIELD_MISSING"
  /\ result.err.path = "Post.data.comments.createMany.data[1]"
  /\ result.err.model = "Comment"
  /\ result.v = call.args
  /\ forwarded = NotForwarded

\* C8 as first stated: every nested create element naming another tenant
\* makes enforce throw TENANT_MISMATCH with the path of exactly that element.
C8_EveryElementReported ==
  Intercepted =>
    LET rows == CallRows
    IN \A i \in DOMAIN rows :
         (rows[i].nested /\ Differs(rows[i])) =>
           /\ result.err.code = "TENANT_MISMATCH"
           /\ result.err.path = rows[i].path

\* C8: given metadata declaring a relation, a nested create element whose
\* tenant field differs from the configured tenant, at any list index and
\* any depth reached through nested creates of declared relations, makes
\* enforce throw and the query is not called.  When that element is the
\* first row the walk rejects and no where clause or relation check throws
\* before it, the error is TENANT_MISMATCH for the element's model and
\* tenant, and its path is the model-rooted breadcrumb of exactly that
\* element, with zero-based list indexes ('Post.data.comments.create[0]');
\* so it is for every create whose relations carry nested creates only.
C8_NestedMismatchPath ==
  Intercepted =>
    LET rows == CallRows
    IN \A i \in DOMAIN rows :
         (rows[i].nested /\ Differs(rows[i])) =>
           /\ Rejects
           /\ FirstRejected(rows, i) =>
                \/ result.err = MismatchOf(rows[i])
                \/ result.err.path \notin RowPaths(rows)
           /\ (FirstRejected(rows, i) /\ RowChecksOnly) =>
                result.err = MismatchOf(rows[i])

\* the offending element is the second of a list two relations down
C8_Witness ==
  /\ Intercepted
  /\ call.operation = "create"
  /\ result.err.code = "TENANT_MISMATCH"
  /\ result.err.path = "Post.data.comments.create.post.create[1]"
  /\ result.err.model = "Post"
  /\ result.err.actualTenant = Str(TenantB)
  /\ forwarded = NotForwarded

\* the one-level case
C8_WitnessOneLevel ==
  /\ Intercepted
  /\ call.operation = "create"
  /\ call.args = Obj(<< <<"data",
                  Obj(<< <<"tenantId", Str(TenantA)>>,
                         <<"comments",
                           Obj(<< <<"create",
                                    Arr(<< Obj(<< <<"tenantId", Str(TenantB)>> >>) >>)>> >>)>> >>)>> >>)
  /\ result.err.code = "TENANT_MISMATCH"
  /\ result.err.path = "Post.data.comments.create[0]"


\* positions of the keys of a row that the metadata does not declare as
\* relations although their value has the shape of a relation operation
UndeclaredKeys(e) ==
  IF ~isPlainObject(e.row) THEN {}
  ELSE { k \in DOMAIN e.row.kv :
           /\ \A j \in DOMAIN getNestedTargets(e.model) :
                getNestedTargets(e.model)[j][1] # e.row.kv[k][1]
           /\ hasRelationOperations(e.row.kv[k][2]) }

\* relation operations of a payload for which a declared relation names no
\* target model
RECURSIVE UnresolvedOps(_,_,_)
UnresolvedOps(model, field, payload) ==
  IF IsArray(payload)
    THEN UNION { UnresolvedOps(model, field, payload.e[i]) :
                 i \in DOMAIN payload.e }
  ELSE IF ~isPlainObject(payload) THEN {}
  ELSE { payload.kv[i][1] : i \in DOMAIN payload.kv }
       \cap { op \in RELATION_OPERATIONS : TargetOf(model, field, op) = "" }

UnresolvedIn(e) ==
  /\ isPlainObject(e.row)
  /\ \E j \in DOMAIN getNestedTargets(e.model) :
       UnresolvedOps(e.model, getNestedTargets(e.model)[j][1],
                     Get(e.row, getNestedTargets(e.model)[j][1])) # {}

\* the declared relations of a row carry nested creates only
DeclaredCreatesOnly(e) ==
  isPlainObject(e.row) =>
    \A j \in DOMAIN getNestedTargets(e.model) :
      CreatesOnly(Get(e.row, getNestedTargets(e.model)[j][1]))

\* every tenant check of the call passes: the where clause is accepted, no
\* row is rejected and no relation carries a selector
TenantChecksPass(rows) ==
  /\ TopWhereAccepted
  /\ RejectedRows(rows) = {}
  /\ \A j \in DOMAIN rows : ~rows[j].nested => DeclaredCreatesOnly(rows[j])

\* row i is the only place of the call where metadata is missing
OnlyMissingAt(rows, i) ==
  /\ \A j \in DOMAIN rows : ~UnresolvedIn(rows[j])
  /\ \A j \in DOMAIN rows \ {i} : UndeclaredKeys(rows[j]) = {}

MetaMissingOf(e, k) ==
  [code |-> "TENANT_META_MISSING", model |-> e.model,
   operation |-> e.row.kv[k][1], path |-> e.path \o "." \o e.row.kv[k][1],
   expectedTenant |-> TenantA, actualTenant |-> Undef]

FirstUndeclared(e) == CHOOSE k \in UndeclaredKeys(e) : \A j \in UndeclaredKeys(e) : k <= j

\* C9 as first stated: in strict mode a payload key that is not declared but
\* carries a relation operation makes enforce throw TENANT_META_MISSING when
\* RLS is disabled, and the call returns when RLS is enabled.
C9_UndeclaredAlwaysDecides ==
  (Intercepted /\ guard.mode = "strict") =>
    LET rows == CallRows
    IN \A i \in DOMAIN rows :
         UndeclaredKeys(rows[i]) # {} =>
           IF guard.rlsEnabled THEN ~Threw(result)
           ELSE result.err.code = "TENANT_META_MISSING"

\* C9: in strict mode with RLS disabled, a payload key that is not declared
\* in the model's nestedTargets but whose value contains a relation-operation
\* key makes enforce throw and the query is not called; the error is
\* TENANT_META_MISSING, with the key as operation and the key's path, when
\* every tenant check of the call passes (where clause, the payload's own
\* tenant field, the rows of its declared relations) and no other metadata
\* is missing.  On a guard with rls.enabled = true the same call never
\* throws TENANT_META_MISSING, and under the same proviso it returns the
\* args unchanged.
C9_StrictMetaMissing ==
  (Intercepted /\ guard.mode = "strict") =>
    LET rows == CallRows
    IN \A i \in DOMAIN rows :
         UndeclaredKeys(rows[i]) # {} =>
           IF guard.rlsEnabled
             THEN /\ result.err.code # "TENANT_META_MISSING"
                  /\ (TenantChecksPass(rows) /\ OnlyMissingAt(rows, i)) =>
                       /\ ~Threw(result)
                       /\ forwarded = call.args
             ELSE /\ Rejects
                  /\ result.v = call.args
                  /\ (TenantChecksPass(rows) /\ OnlyMissingAt(rows, i)) =>
                       result.err = MetaMissingOf(rows[i],
                                                  FirstUndeclared(rows[i]))

\* the undeclared relation is found after the declared one has passed
C9_Witness ==
  /\ Intercepted
  /\ guard.mode = "strict" /\ ~guard.rlsEnabled
  /\ call.operation = "create"
  /\ isPlainObject(Get(call.args, "data"))
  /\ HasKey(Get(call.args, "data"), "comments")
  /\ result.err.code = "TENANT_META_MISSING"
  /\ result.err.path = "Post.data.attachments"
  /\ result.err.operation = "attachments"
  /\ forwarded = NotForwarded

\* with RLS the same kind of call goes through
C9_WitnessRls ==
  /\ Intercepted
  /\ guard.mode = "strict" /\ guard.rlsEnabled
  /\ call.operation = "create"
  /\ isPlainObject(Get(call.args, "data"))
  /\ HasKey(Get(call.args, "data"), "comments")
  /\ HasKey(Get(call.args, "data"), "attachments")
  /\ forwarded = call.args

\* C10: in assert mode with RLS disabled, missing relation metadata fails
\* with TENANT_META_MISSING as in strict mode: a payload key with the shape
\* of a relation operation that the model's nestedTargets do not declare, or
\* a declared relation naming no target model for the operation, makes
\* enforce throw TENANT_META_MISSING (every tenant check of the call
\* passing).
C10_AssertMetaMissing ==
  (Intercepted /\ guard.mode = "assert" /\ ~guard.rlsEnabled) =>
    LET rows == CallRows
    IN \A i \in DOMAIN rows :
         (/\ UndeclaredKeys(rows[i]) # {} \/ UnresolvedIn(rows[i])
          /\ TenantChecksPass(rows)) =>
           /\ result.err.code = "TENANT_META_MISSING"
           /\ forwarded = NotForwarded


(***************************************************************************)
(* Properties of the policy engine: masks of a decision                    *)
(***************************************************************************)
\* the mask a matching rule contributes: the mask of its match details
\* merged with the mask of the rule itself
RuleMask(rule, input, which) ==
  mergeMaskRecords(IF rule.when.kind = "details" THEN rule.when[which] ELSE Undef,
                   resolveMaskFactory(rule[which], input))

\* the merge, in declaration order, of the masks of the matching allow
\* rules from rule i on
RECURSIVE MergedFrom(_,_,_)
MergedFrom(which, i, acc) ==
  IF i > Len(policy.rules) THEN acc
  ELSE MergedFrom(which, i + 1,
                  IF i \in MatchingRules("allow")
                    THEN mergeMaskRecords(acc, RuleMask(policy.rules[i],
                                                        pcall.input, which))
                    ELSE acc)

\* every field a matching allow rule sets to true is true in the mask m
HasEveryTrueField(m, which) ==
  \A i \in MatchingRules("allow") :
    LET rm == RuleMask(policy.rules[i], pcall.input, which)
    IN rm # Undef =>
         /\ m # Undef
         /\ \A key \in DOMAIN rm.m :
              rm.m[key] = True => (key \in DOMAIN m.m /\ m.m[key] = True)

C12_DeniedWithoutMasks ==
  (Detailed /\ MatchingRules("deny") # {}) =>
    /\ decision.readMask = Undef
    /\ decision.writeMask = Undef

\* the reason a matching rule produces: that of its match details when
\* they give one, the rule's own otherwise
ReasonOf(rule) ==
  IF rule.when.kind = "details" /\ rule.when.reason # Undef
    THEN rule.when.reason ELSE rule.reason

\* the attrs a matching rule produces: those of its match details
AttrsOf(rule) == IF rule.when.kind = "details" THEN rule.when.attrs ELSE Undef

\* C13: when no deny rule matches and at least one allow rule matches, the
\* matchedRule, reason and attrs of the decision of checkDetailed are those
\* produced by the first matching allow rule in declaration order, whatever
\* later matching allow rules supply.
C13_FirstAllowIsBase ==
  (Detailed /\ MatchingRules("deny") = {} /\ MatchingRules("allow") # {}) =>
    LET first == policy.rules[Least(MatchingRules("allow"))]
    IN /\ decision.allow = TRUE
       /\ decision.effect = Str("allow")
       /\ decision.matchedRule = first.id
       /\ decision.reason = ReasonOf(first)
       /\ decision.attrs = AttrsOf(first)

\* a later matching allow rule supplies another reason and other attrs
C13_Witness ==
  /\ Detailed
  /\ MatchingRules("deny") = {}
  /\ \E i, j \in MatchingRules("allow") :
       /\ i = Least(MatchingRules("allow"))
       /\ i < j
       /\ ReasonOf(policy.rules[i]) # ReasonOf(policy.rules[j])
       /\ AttrsOf(policy.rules[i]) # AttrsOf(policy.rules[j])
       /\ AttrsOf(policy.rules[j]) # Undef
       /\ ReasonOf(policy.rules[j]) # Undef
       /\ decision.matchedRule = policy.rules[i].id

(***************************************************************************)
(* Properties of the policy engine: order of evaluation                    *)
(***************************************************************************)
\* the position of the rule with the given id
RuleIndex(id) == CHOOSE i \in DOMAIN policy.rules : policy.rules[i].id = id

\* the rules the loop reaches: all of them, or those up to the first
\* matching deny rule
Reached ==
  IF MatchingRules("deny") = {} THEN DOMAIN policy.rules
  ELSE 1 .. Least(MatchingRules("deny"))

\* C14: checkDetailed evaluates rules in declaration order, each at most
\* once per call, and returns at the first rule that produces a deny
\* decision: the predicate of every rule for the action up to that rule is
\* invoked, and no predicate and no mask factory of a later rule is.
C14_DenyStopsEvaluation ==
  pcall # NoCall =>
    LET log == pcall.invoked
    IN /\ \A a, b \in DOMAIN log :
            a < b => RuleIndex(log[a].rule) <= RuleIndex(log[b].rule)
       /\ \A a, b \in DOMAIN log : a # b => log[a] # log[b]
       /\ \A a \in DOMAIN log : RuleIndex(log[a].rule) \in Reached
       /\ \A i \in Reached :
            (pcall.action \in policy.rules[i].action
               /\ policy.rules[i].when.kind # "none")
              => \E a \in DOMAIN log :
                   log[a] = [rule |-> policy.rules[i].id, fn |-> "when"]

\* a deny rule matches after a rule whose predicate ran, and before a
\* matching rule with a predicate and a mask factory that is a function
C14_Witness ==
  /\ Detailed
  /\ MatchingRules("deny") # {}
  /\ Least(MatchingRules("deny")) = 2
  /\ Len(pcall.invoked) = 2
  /\ \E j \in MatchingRules("allow") :
       /\ j > Least(MatchingRules("deny"))
       /\ policy.rules[j].when.kind # "none"
       /\ policy.rules[j].readMask.t = "fn"

\* the mask m has every key of the mask a matching allow rule supplies
HasEveryKey(m, which) ==
  \A i \in MatchingRules("allow") :
    LET rm == RuleMask(policy.rules[i], pcall.input, which)
    IN rm # Undef => (m # Undef /\ DOMAIN rm.m \subseteq DOMAIN m.m)

\* the functions of rule i that a call invokes when the rule matches
FunctionsOf(i) ==
  { [rule |-> policy.rules[i].id, fn |-> f] :
      f \in { g \in {"when", "readMask", "writeMask"} :
                IF g = "when" THEN policy.rules[i].when.kind # "none"
                ELSE policy.rules[i][g].t = "fn" } }

InvokedSet == { pcall.invoked[a] : a \in DOMAIN pcall.invoked }

WithoutMasks(d) == [d EXCEPT !.readMask = Undef, !.writeMask = Undef]

MergeReturned == merged.operation = "returned"

BaseValue == mcall.baseValue

NextValue == mcall.nextValue

MergedValue == Value(heap, merged.v)

IsNested(m, key) == key \in DOMAIN m.m /\ isMaskRecord(m.m[key])

IsTrue(m, key) == key \in DOMAIN m.m /\ m.m[key] = True

\* the paths of fields, down to one level below the deepest mask
RECURSIVE FieldPaths(_)
FieldPaths(n) ==
  IF n = 0 THEN {}
  ELSE {<<key>> : key \in MaskKeys \cup {"id"}}
       \cup { <<key>> \o path : key \in MaskKeys \cup {"id"},
                                path \in FieldPaths(n - 1) }

\* the mask m permits the field at the path: a key on the way holds true,
\* or every key of the path is in the mask
RECURSIVE Permits(_,_)
Permits(m, path) ==
  /\ m # Undef
  /\ Head(path) \in DOMAIN m.m
  /\ \/ m.m[Head(path)] = True
     \/ Len(path) = 1
     \/ Permits(m.m[Head(path)], Tail(path))

\* r has exactly the keys of b and n; a key true on either side is true; a
\* key nested on both sides holds a mask that is in turn such a union
RECURSIVE IsUnionOf(_,_,_)
IsUnionOf(r, b, n) ==
  /\ isMaskRecord(r)
  /\ DOMAIN r.m = DOMAIN b.m \cup DOMAIN n.m
  /\ \A key \in DOMAIN r.m :
       /\ (IsTrue(b, key) \/ IsTrue(n, key)) => r.m[key] = True
       /\ (IsNested(b, key) /\ IsNested(n, key)) =>
            /\ isMaskRecord(r.m[key])
            /\ IsUnionOf(r.m[key], b.m[key], n.m[key])

\* C16: for masks whose values are true or nested masks, merge(base, next)
\* has exactly the keys of base and of next; a key true on either side is
\* true in the result; a key nested on both sides holds their recursive
\* merge; the result permits every field that either input permits.
C16_MergeIsUnion ==
  (MergeReturned /\ BaseValue # Undef /\ NextValue # Undef) =>
    /\ IsUnionOf(MergedValue, BaseValue, NextValue)
    /\ \A path \in FieldPaths(MaxMaskDepth + 1) :
         (Permits(BaseValue, path) \/ Permits(NextValue, path))
           => Permits(MergedValue, path)

\* both sides have a nested mask at "author", with different keys below, and
\* one side only has "title"
C16_Witness ==
  /\ MergeReturned
  /\ BaseValue = Mask([author |-> Fields({"title"})])
  /\ NextValue = Mask([author |-> Fields({"author"}), title |-> True])
  /\ MergedValue = Mask([author |-> Fields({"author", "title"}), title |-> True])

HasNoKey(m, key) == key \notin DOMAIN m.m

\* the value of r at every key where one side has a nested mask and the
\* other has true (overTrue) or lacks the key is that nested mask, at every
\* level of the masks
RECURSIVE NestedKept(_,_,_,_)
NestedKept(r, b, n, overTrue) ==
  \A key \in DOMAIN b.m \cup DOMAIN n.m :
    /\ (IsNested(n, key) /\ (HasNoKey(b, key) \/ (overTrue /\ IsTrue(b, key))))
         => (key \in DOMAIN r.m /\ r.m[key] = n.m[key])
    /\ (IsNested(b, key) /\ (HasNoKey(n, key) \/ (overTrue /\ IsTrue(n, key))))
         => (key \in DOMAIN r.m /\ r.m[key] = b.m[key])
    /\ (IsNested(b, key) /\ IsNested(n, key))
         => /\ IsNested(r, key)
            /\ NestedKept(r.m[key], b.m[key], n.m[key], overTrue)

\* true wins over a nested mask at every level of the masks
RECURSIVE TrueWins(_,_,_)
TrueWins(r, b, n) ==
  \A key \in DOMAIN b.m \cup DOMAIN n.m :
    /\ ((IsNested(n, key) /\ IsTrue(b, key)) \/ (IsNested(b, key) /\ IsTrue(n, key)))
         => (key \in DOMAIN r.m /\ r.m[key] = True)
    /\ (IsNested(b, key) /\ IsNested(n, key))
         => /\ IsNested(r, key)
            /\ TrueWins(r.m[key], b.m[key], n.m[key])

\* C17 as stated: when, at some key, one side of a merge has true or lacks
\* the key and the other side has a nested mask, the merged result at that
\* key is the nested mask as-is, not collapsed to true.
C17_NestedWinsOverTrue ==
  (MergeReturned /\ BaseValue # Undef /\ NextValue # Undef) =>
    NestedKept(MergedValue, BaseValue, NextValue, TRUE)

\* C17: when, at some key, one side of a merge lacks the key and the other
\* side has a nested mask, the merged result at that key is that nested mask
\* as-is; when one side has true and the other a nested mask, the result at
\* that key is true.
C17_NestedKeptWhenAbsent ==
  (MergeReturned /\ BaseValue # Undef /\ NextValue # Undef) =>
    /\ NestedKept(MergedValue, BaseValue, NextValue, FALSE)
    /\ TrueWins(MergedValue, BaseValue, NextValue)

\* next has a nested mask where base lacks the key and another where base
\* has true
C17_Witness ==
  /\ MergeReturned
  /\ BaseValue = Mask([title |-> True])
  /\ NextValue = Mask([author |-> Fields({"title"}), title |-> Fields({"id"})])
  /\ MergedValue = Mask([author |-> Fields({"title"}), title |-> True])

\* C18: mask merging is idempotent: for every mask m, merge(m, m) is
\* structurally equal to m, whether the two arguments are the same object
\* or two equal ones.
C18_MergeIdempotent ==
  (MergeReturned /\ BaseValue # Undef /\ NextValue = BaseValue) =>
    MergedValue = BaseValue

\* the two arguments are one object, a mask with nested masks
C18_Witness ==
  /\ MergeReturned
  /\ mcall.base = mcall.next
  /\ BaseValue = Mask([author |-> Fields({"author", "title"}),
                       title |-> Fields({"id"})])
  /\ MergedValue = BaseValue

\* the objects of the two masks given to merge
InputObjects == Reach(heap, mcall.base) \cup Reach(heap, mcall.next)

\* C19: merge never mutates base or next, and its result shares no object
\* with either: after the call, and after the caller has written to the
\* result, both inputs have the values they were given with; merge(undefined,
\* x) and merge(x, undefined) return a copy structurally equal to x, and
\* merge(undefined, undefined) returns undefined.
C19_MergeIsPure ==
  /\ mcall.operation # "none" =>
       /\ Value(heap, mcall.base) = BaseValue
       /\ Value(heap, mcall.next) = NextValue
  /\ merged.operation \in {"returned", "mutated"} =>
       Reach(heap, merged.v) \cap InputObjects = {}
  /\ MergeReturned =>
       /\ (BaseValue = Undef /\ NextValue # Undef) =>
            (IsRef(merged.v) /\ MergedValue = NextValue)
       /\ (NextValue = Undef /\ BaseValue # Undef) =>
            (IsRef(merged.v) /\ MergedValue = BaseValue)
       /\ (BaseValue = Undef /\ NextValue = Undef) => merged.v = Undef

\* the caller has changed a nested object of the result of a merge whose
\* two arguments share an object, and both arguments are as they were
C19_Witness ==
  /\ merged.operation = "mutated"
  /\ Reach(heap, mcall.base) \cap Reach(heap, mcall.next) # {}
  /\ \E key \in DOMAIN BaseValue.m : isMaskRecord(BaseValue.m[key])
  /\ \E key \in DOMAIN MergedValue.m :
       /\ isMaskRecord(MergedValue.m[key])
       /\ MergedValue.m[key] # mergeMaskRecords(BaseValue, NextValue).m[key]
  /\ Value(heap, mcall.base) = BaseValue
  /\ Value(heap, mcall.next) = NextValue

(***************************************************************************)
(* Properties of the tenant guard: nested updates                          *)
(***************************************************************************)
\* the operation values under data.comments of a Post call: a single value
\* or the elements of a list
NestedValues(op) ==
  LET data == Get(call.args, "data")
  IN IF ~isPlainObject(data) THEN {}
     ELSE IF ~isPlainObject(Get(data, "comments")) THEN {}
     ELSE LET v == Get(Get(data, "comments"), op)
          IN IF IsArray(v) THEN { v.e[i] : i \in DOMAIN v.e }
             ELSE IF isPlainObject(v) THEN {v}
             ELSE {}

\* the update payload of a nested operation value
UpdatePayload(op, value) ==
  IF op = "upsert" THEN Get(value, "update") ELSE Get(value, "data")

\* the payload names a tenant other than the guard's
NamesForeignTenant(model, payload) ==
  /\ isPlainObject(payload)
  /\ Get(payload, getTenantField(model)) \notin {Undef, OwnTenant}

\* nothing but the update payload of the value can make the walk throw: the
\* parent row is a create of the guard's tenant, the value's where clause is
\* absent or accepted and the create branch of an upsert is of the guard's
\* tenant
OnlyUpdatePayloadAtFault(op, value) ==
  /\ call.operation = "create"
  /\ Get(Get(call.args, "data"), "tenantId") = OwnTenant
  /\ Keys(Get(Get(call.args, "data"), "comments")) = <<op>>
  /\ HasKey(value, "where") => WhereAccepted("Comment", Get(value, "where"))
  /\ op = "upsert" => Get(Get(value, "create"), "tenantId") = OwnTenant

\* C20: for a nested update, updateMany or upsert under a declared relation,
\* whether the operation value is a single object or a list of objects and
\* whether or not it has a where, a tenant field that is present in its
\* data / update payload and differs from the configured tenant makes
\* enforce throw, in every mode, and the error is TENANT_MISMATCH when no
\* other part of the call is at fault.
C20_NestedUpdateMismatch ==
  (Intercepted /\ call.model = "Post") =>
    \A op \in {"update", "updateMany", "upsert"} :
      \A value \in NestedValues(op) :
        NamesForeignTenant("Comment", UpdatePayload(op, value)) =>
          /\ Rejects
          /\ OnlyUpdatePayloadAtFault(op, value) =>
               result.err.code = "TENANT_MISMATCH"

(***************************************************************************)
(* Properties of the tenant guard: connect, set and disconnect             *)
(***************************************************************************)
\* the entries of a Post call under data.comments.<op>: a single selector or
\* the elements of a list
ConnectEntries(op) == NestedValues(op)

\* the entry names a tenant other than the guard's in its tenant field or in
\* the tenant component of its composite selector
ForeignAnchor(model, entry) ==
  /\ isPlainObject(entry)
  /\ \/ Get(entry, getTenantField(model)) \notin {Undef, OwnTenant}
     \/ /\ getCompositeSelector(model) # ""
        /\ isPlainObject(Get(entry, getCompositeSelector(model)))
        /\ Get(Get(entry, getCompositeSelector(model)), getTenantField(model))
             \notin {Undef, OwnTenant}

\* the entry has no tenant field, no where object and no composite-selector
\* object
NoAnchor(model, entry) ==
  /\ isPlainObject(entry)
  /\ Get(entry, getTenantField(model)) = Undef
  /\ ~isPlainObject(Get(entry, "where"))
  /\ \/ getCompositeSelector(model) = ""
     \/ ~isPlainObject(Get(entry, getCompositeSelector(model)))

\* a create of the guard's tenant whose only relation operation is op
OnlyOperation(op) ==
  /\ call.operation = "create"
  /\ Get(Get(call.args, "data"), "tenantId") = OwnTenant
  /\ Keys(Get(Get(call.args, "data"), "comments")) = <<op>>

\* C21: for a nested connect, set or disconnect under a declared relation, an
\* entry whose tenant field or composite-selector tenant component differs
\* from the configured tenant makes enforce throw, in every mode, with
\* TENANT_MISMATCH when nothing else in the call is at fault; in strict mode
\* with RLS disabled an entry with no tenant field, no where object and no
\* composite-selector object makes it throw TENANT_META_MISSING.
C21_ConnectAnchors ==
  (Intercepted /\ call.model = "Post") =>
    \A op \in {"connect", "set", "disconnect"} :
      \A entry \in ConnectEntries(op) :
        /\ ForeignAnchor("Comment", entry) =>
             /\ Rejects
             /\ OnlyOperation(op) => result.err.code = "TENANT_MISMATCH"
        /\ (NeedsMeta /\ NoAnchor("Comment", entry)) =>
             /\ Rejects
             /\ OnlyOperation(op) => result.err.code = "TENANT_META_MISSING"

(***************************************************************************)
(* Properties of the tenant guard: createMany                              *)
(***************************************************************************)
\* the rows supplied in args.data of a createMany, with their positions: the
\* elements of a list, or the single row object
CreateManyRows(args) ==
  LET data == Get(args, "data")
  IN IF IsArray(data) THEN data.e
     ELSE IF isPlainObject(data) /\ ~IsArray(Get(data, "data")) THEN <<data>>
     ELSE << >>

\* C22: for a top-level createMany, every row supplied in args.data, whether
\* data is a list of rows or a single row object, is checked as a create: a
\* row whose tenant field differs from the configured tenant makes enforce
\* throw, with TENANT_MISMATCH when it is the first row; a row without the
\* tenant field is given the configured tenant in assist mode and makes
\* enforce throw in assert and strict mode, with TENANT_FIELD_MISSING when it
\* is the first row.
C22_CreateManyRowsChecked ==
  (Intercepted /\ call.operation = "createMany"
     /\ isPlainObject(call.args)) =>
    LET rows == CreateManyRows(call.args)
        tf == getTenantField(call.model)
    IN \A i \in DOMAIN rows :
         isPlainObject(rows[i]) =>
           /\ Get(rows[i], tf) \notin {Undef, OwnTenant} =>
                /\ Rejects
                /\ i = 1 => result.err.code = "TENANT_MISMATCH"
           /\ (Get(rows[i], tf) = Undef /\ guard.mode # "assist") =>
                /\ Rejects
                /\ i = 1 => result.err.code = "TENANT_FIELD_MISSING"
           /\ (Get(rows[i], tf) = Undef /\ guard.mode = "assist"
                 /\ ~Threw(result)) =>
                Get(CreateManyRows(forwarded)[i], tf) = OwnTenant

definePolicyRef(h, config) ==
  [h |-> Append(h, h[config.rules.a]),
   v |-> [rules |-> Ref(Len(h) + 1),
          defaultDecision |-> config.defaultDecision]]

\* a describe that hands out the policy's own array
describeAliased(h, p) == [h |-> h, v |-> p.rules]

\* const describe = () => [...rules]
describe(h, p) == [h |-> Append(h, h[p.rules.a]), v |-> Ref(Len(h) + 1)]

\* the policy as checkDetailed reads it: the entries of its rules array
Rules(h, p) == [rules |-> h[p.rules.a], defaultDecision |-> p.defaultDecision]

\* longest rule list passed in a config of RulesSpec
MaxConfigRules == 2

\* what a caller does to an array it holds: push a deny rule, pop, reverse
ArrayEdits(rules) ==
  (IF Len(rules) < MaxRules
     THEN {Append(rules, [id |-> Str("pushed")]
                           @@ Rule("deny", Actions, WhenNone, Str("PUSHED"),
                                   Undef, Undef))}
     ELSE {})
    \cup (IF Len(rules) > 0 THEN {SubSeq(rules, 1, Len(rules) - 1)} ELSE {})
    \cup (IF Len(rules) > 1
            THEN {[i \in DOMAIN rules |-> rules[Len(rules) + 1 - i]]}
            ELSE {})

\* the configs are built from the rules for every action that allow
\* unconditionally or deny on a condition
RulesInit ==
  /\ \E l \in { x \in RuleLists(MaxConfigRules) :
                  \A i \in DOMAIN x :
                    /\ x[i].action = Actions
                    /\ \/ x[i].effect = "allow" /\ x[i].when.kind = "none"
                       \/ x[i].effect = "deny" /\ x[i].when.kind = "bool" },
        dd \in DefaultDecisions :
       LET defined(r) ==
             /\ heap = r.h
             /\ policy = r.v
       IN defined(definePolicyRef(<<WithIds(l)>>,
                                  [rules |-> Ref(1), defaultDecision |-> dd]))
  /\ pcall = NoCall
  /\ decision = NoCall
  /\ mcall = NoCall
  /\ merged = NoCall
  /\ rls = NoCall
  /\ walk = NoCall
  /\ guard = [tenantId |-> TenantA, mode |-> "strict", rlsEnabled |-> FALSE,
              onWarn |-> FALSE]
  /\ call = NoCall
  /\ result = R(Undef, << >>, NoError)
  /\ warnings = << >>
  /\ forwarded = NotForwarded

RulesCheckDetailed ==
  \E action \in Actions, input \in Inputs :
    /\ pcall = NoCall
    /\ pcall' = [operation |-> "checkDetailed", action |-> action,
                 input |-> input]
    /\ decision' = checkDetailed(Rules(heap, policy), action, input)
    /\ UNCHANGED <<heap, policy, mcall, merged, guardVars, rls, walk>>

RulesCheck ==
  \E action \in Actions, input \in Inputs :
    /\ pcall = NoCall
    /\ pcall' = [operation |-> "check", action |-> action, input |-> input]
    /\ decision' = Bool(check(Rules(heap, policy), action, input))
    /\ UNCHANGED <<heap, policy, mcall, merged, guardVars, rls, walk>>

\* const listed = policy.describe()
Describe ==
  /\ pcall = NoCall
  /\ pcall' = [operation |-> "describe"]
  /\ LET return(r) ==
           /\ heap' = r.h
           /\ decision' = r.v
     IN return(describe(heap, policy))
  /\ UNCHANGED <<policy, mcall, merged, guardVars, rls, walk>>

\* the caller edits the array it passed as config.rules
EditConfigRules ==
  /\ pcall = NoCall
  /\ \E edited \in ArrayEdits(heap[1]) : heap' = [heap EXCEPT ![1] = edited]
  /\ UNCHANGED <<policy, pcall, decision, mcall, merged, guardVars, rls, walk>>

\* the caller edits the array describe() returned
EditDescribed ==
  /\ pcall.operation = "describe"
  /\ \E edited \in ArrayEdits(heap[decision.a]) :
       heap' = [heap EXCEPT ![decision.a] = edited]
  /\ UNCHANGED <<policy, pcall, decision, mcall, merged, guardVars, rls, walk>>

\* the caller drops the value it got; an array describe() made for it is
\* no longer referenced
RulesReturn ==
  /\ pcall # NoCall
  /\ pcall' = NoCall
  /\ decision' = NoCall
  /\ heap' = SubSeq(heap, 1, policy.rules.a)
  /\ UNCHANGED <<policy, mcall, merged, guardVars, rls, walk>>

RulesNext ==
  \/ RulesCheckDetailed
  \/ RulesCheck
  \/ Describe
  \/ EditConfigRules
  \/ EditDescribed
  \/ RulesReturn

RulesSpec == RulesInit /\ [][RulesNext]_vars

(***************************************************************************)
(* Properties of the policy engine: the rule list                          *)
(***************************************************************************)
\* C24: after definePolicy has returned, no check, checkDetailed or describe
\* call changes the policy's rule list, and no edit (push, pop, reverse) of
\* the array describe() returned or of the array passed as config.rules
\* changes the rule list or the result of any checkDetailed call.
C24_RuleListFrozen ==
  [][/\ policy' = policy
     /\ heap'[policy.rules.a] = heap[policy.rules.a]
     /\ \A action \in Actions, input \in Inputs :
          checkDetailed(Rules(heap', policy'), action, input)
            = checkDetailed(Rules(heap, policy), action, input)]_vars

\* a checkDetailed call made after the config's array was edited, whose
\* decision the edited array would have changed
C24_Witness ==
  /\ pcall # NoCall
  /\ pcall.operation = "checkDetailed"
  /\ Len(heap) = 2
  /\ heap[1] # heap[policy.rules.a]
  /\ decision = checkDetailed(Rules(heap, policy), pcall.action, pcall.input)
  /\ decision # checkDetailed([rules |-> heap[1],
                               defaultDecision |-> policy.defaultDecision],
                              pcall.action, pcall.input)

(***************************************************************************)
(* Properties of the guard: state between calls                            *)
(***************************************************************************)
\* what a call on guard g yields, computed from g and the call alone
OutcomeOf(c) ==
  IF c.operation \notin WRITE_OPERATIONS THEN R(c.args, << >>, NoError)
  ELSE enforce(c.model, c.operation, c.args)

PrismaClients ==
  [transaction : BOOLEAN, executeRawUnsafe : BOOLEAN, executeRaw : BOOLEAN]

PromiseResolved(v) == [state |-> "resolved", value |-> v]

PromiseRejected(e) == [state |-> "rejected", error |-> e]

\* const executor = executeRawUnsafe ?? executeRaw
executor(tx) ==
  IF tx.executeRawUnsafe THEN "$executeRawUnsafe"
  ELSE IF tx.executeRaw THEN "$executeRaw"
  ELSE "none"

\* a callback that never sets the session variable
setConfigSkipped(via, varName, tenantId) == << >>

\* the raw statements the callback issues on the handle through `via`:
\* select set_config('${varName}', $1, true) with tenantId for $1
setConfig(via, varName, tenantId) ==
  << [via |-> via, handle |-> "tx",
      query |-> "select set_config('" \o varName \o "', $1, true)",
      values |-> <<tenantId>>] >>

RlsInit ==
  /\ rls \in { [prisma |-> c, tenantId |-> t, varName |-> n, pc |-> "called",
                issued |-> << >>, statement |-> "none", runs |-> << >>,
                outcome |-> [state |-> "pending"]] :
               c \in PrismaClients, t \in {TenantA, TenantB}, n \in {"authzkit.tenant_id", "app.tenant_id"} }
  /\ guard = [tenantId |-> TenantA, mode |-> "strict", rlsEnabled |-> TRUE,
              onWarn |-> FALSE]
  /\ call = NoCall
  /\ result = R(Undef, << >>, NoError)
  /\ warnings = << >>
  /\ forwarded = NotForwarded
  /\ policy = << >>
  /\ pcall = NoCall
  /\ decision = NoCall
  /\ heap = << >>
  /\ mcall = NoCall
  /\ merged = NoCall
  /\ walk = NoCall

\* the body of withTenantRLS up to the call of $transaction
WithTenantRLS ==
  /\ rls.pc = "called"
  /\ rls' = IF ~rls.prisma.transaction
              THEN [rls EXCEPT !.pc = "settled",
                               !.outcome = PromiseRejected("RLS_CLIENT_MISSING")]
            ELSE [rls EXCEPT !.pc = "$transaction"]
  /\ UNCHANGED <<guardVars, policyVars, mergeVars, walk>>

\* the client calls the function it was given with tx; the function runs up
\* to its await
TransactionCallback ==
  /\ rls.pc = "$transaction"
  /\ rls' = IF executor(rls.prisma) = "none"
              THEN [rls EXCEPT !.pc = "settled",
                               !.outcome = PromiseRejected("RLS_EXECUTOR_MISSING")]
            ELSE [rls EXCEPT !.pc = "await",
                             !.statement = "pending",
                             !.issued = @ \o setConfig(executor(rls.prisma),
                                                       rls.varName,
                                                       rls.tenantId)]
  /\ UNCHANGED <<guardVars, policyVars, mergeVars, walk>>

\* the awaited statement resolves: return run(tx)
StatementResolves ==
  /\ rls.pc = "await"
  /\ rls' = [rls EXCEPT !.pc = "run", !.statement = "resolved",
                        !.runs = Append(@, [handle |-> "tx",
                                            result |-> [state |-> "pending"]])]
  /\ UNCHANGED <<guardVars, policyVars, mergeVars, walk>>

\* the awaited statement rejects: the function throws at its await
StatementRejects ==
  /\ rls.pc = "await"
  /\ rls' = [rls EXCEPT !.pc = "settled", !.statement = "rejected",
                        !.outcome = PromiseRejected("statement failed")]
  /\ UNCHANGED <<guardVars, policyVars, mergeVars, walk>>

\* the promise run returned settles, and the transaction's with it
RunSettles ==
  /\ rls.pc = "run"
  /\ \E settled \in { PromiseResolved(v) : v \in {"ok", "rows"} }
                    \cup {PromiseRejected("run failed")} :
       rls' = [rls EXCEPT !.pc = "settled", !.outcome = settled,
                          !.runs[Len(rls.runs)].result = settled]
  /\ UNCHANGED <<guardVars, policyVars, mergeVars, walk>>

RlsNext ==
  \/ WithTenantRLS
  \/ TransactionCallback
  \/ StatementResolves
  \/ StatementRejects
  \/ RunSettles

RlsSpec == RlsInit /\ [][RlsNext]_vars

(***************************************************************************)
(* Properties of withTenantRLS                                             *)
(***************************************************************************)
\* the client has $transaction and the handle a raw executor
Supported == rls.prisma.transaction /\ executor(rls.prisma) # "none"

RlsSettled == rls.pc = "settled"

\* the one statement issued is set_config for varName with the tenant id,
\* on the transactional handle
IssuedOnce ==
  /\ Len(rls.issued) = 1
  /\ rls.issued[1].handle = "tx"
  /\ rls.issued[1].via \in {"$executeRawUnsafe", "$executeRaw"}
  /\ rls.issued[1].query
       = "select set_config('" \o rls.varName \o "', $1, true)"
  /\ rls.issued[1].values = <<rls.tenantId>>

\* run was invoked once, with the handle, and what it settled with is what
\* withTenantRLS settles with
RanOnce ==
  /\ Len(rls.runs) = 1
  /\ rls.runs[1].handle = "tx"
  /\ rls.outcome = rls.runs[1].result

\* run is invoked only after the statement was issued and has resolved
RunAfterSetConfig ==
  rls.runs # << >> => IssuedOnce /\ rls.statement = "resolved"

\* without $transaction or without a raw executor run is never invoked
UnsupportedNeverRuns ==
  /\ ~rls.prisma.transaction =>
       /\ rls.runs = << >>
       /\ rls.issued = << >>
       /\ RlsSettled => rls.outcome = PromiseRejected("RLS_CLIENT_MISSING")
  /\ (rls.prisma.transaction /\ executor(rls.prisma) = "none") =>
       /\ rls.runs = << >>
       /\ rls.issued = << >>
       /\ RlsSettled => rls.outcome = PromiseRejected("RLS_EXECUTOR_MISSING")

\* C26 as stated: on a client with $transaction and a raw executor
\* withTenantRLS issues set_config once inside the transaction, awaits it,
\* then invokes run exactly once with the handle and returns its result;
\* without $transaction or an executor run is never invoked.
C26_RunExactlyOnce ==
  /\ (RlsSettled /\ Supported) => IssuedOnce /\ RanOnce
  /\ RunAfterSetConfig
  /\ UnsupportedNeverRuns

\* C26: on a client with $transaction and a raw executor withTenantRLS
\* issues set_config for varName with the tenant id exactly once on the
\* transactional handle and awaits it; when the statement resolves run is
\* invoked exactly once with the handle and its result is returned; when the
\* statement rejects run is never invoked and withTenantRLS rejects; without
\* $transaction (RLS_CLIENT_MISSING) or a raw executor
\* (RLS_EXECUTOR_MISSING) run is never invoked.
C26_RunOnceAfterSetConfig ==
  /\ (RlsSettled /\ Supported) =>
       /\ IssuedOnce
       /\ rls.statement = "resolved" => RanOnce
       /\ rls.statement = "rejected" =>
            /\ rls.runs = << >>
            /\ rls.outcome.state = "rejected"
  /\ RunAfterSetConfig
  /\ UnsupportedNeverRuns

\* a call that set the variable through $executeRaw, ran run and resolved
C26_Witness ==
  /\ RlsSettled
  /\ Supported
  /\ rls.varName = "app.tenant_id"
  /\ IssuedOnce
  /\ rls.issued[1].via = "$executeRaw"
  /\ RanOnce
  /\ rls.outcome = PromiseResolved("ok")

(***************************************************************************)
(* Properties of the guard: what enforce changes in args                   *)
(***************************************************************************)
RECURSIVE OnlyTenantAdded(_, _)
\* after is before with nothing overwritten, removed or renamed: the keys
\* of every object of before are still there, in place and with their
\* values, and every key that was added is the tenant field, holding the
\* configured tenantId
OnlyTenantAdded(before, after) ==
  IF isPlainObject(before) /\ isPlainObject(after)
    THEN /\ Len(after.kv) >= Len(before.kv)
         /\ \A i \in DOMAIN before.kv :
              /\ after.kv[i][1] = before.kv[i][1]
              /\ OnlyTenantAdded(before.kv[i][2], after.kv[i][2])
         /\ \A i \in DOMAIN after.kv :
              i > Len(before.kv) =>
                /\ after.kv[i][1] \in TenantFieldNames
                /\ after.kv[i][2] = Str(guard.tenantId)
  ELSE IF IsArray(before) /\ IsArray(after)
    THEN /\ Len(after.e) = Len(before.e)
         /\ \A i \in DOMAIN before.e : OnlyTenantAdded(before.e[i], after.e[i])
  ELSE after = before

RECURSIVE Sum(_)
Sum(s) == IF s = << >> THEN 0 ELSE Head(s) + Sum(Tail(s))

RECURSIVE AddedKeys(_, _)
\* the number of keys of after that before does not have
AddedKeys(before, after) ==
  IF isPlainObject(before) /\ isPlainObject(after)
    THEN (Len(after.kv) - Len(before.kv))
         + Sum([i \in DOMAIN before.kv |->
                  AddedKeys(before.kv[i][2], after.kv[i][2])])
  ELSE IF IsArray(before) /\ IsArray(after)
    THEN Sum([i \in DOMAIN before.e |-> AddedKeys(before.e[i], after.e[i])])
  ELSE 0

UpdateEntry(model, path, payload) ==
  [model |-> model, path |-> path, payload |-> payload]

\* the top-level update payload of a call with the given args
TopUpdatePayloads(args) ==
  IF call.operation \in {"update", "updateMany"}
    THEN {UpdateEntry(call.model, call.model \o ".data", Get(args, "data"))}
  ELSE IF call.operation = "upsert"
    THEN {UpdateEntry(call.model, call.model \o ".update", Get(args, "update"))}
  ELSE {}

\* the rows of a Post call under which relation operations are written
ParentRows(args) ==
  { e \in (IF call.operation \in {"create", "update", "updateMany"}
             THEN {UpdateEntry(call.model, call.model \o ".data",
                               Get(args, "data"))}
           ELSE IF call.operation = "upsert"
             THEN {UpdateEntry(call.model, call.model \o ".create",
                               Get(args, "create")),
                   UpdateEntry(call.model, call.model \o ".update",
                               Get(args, "update"))}
           ELSE {}) :
      isPlainObject(e.payload) /\ isPlainObject(Get(e.payload, "comments")) }

\* the update payloads of the nested update, updateMany and upsert of a row
NestedUpdatePayloads(args) ==
  UNION { { UpdateEntry("Comment",
                        e.path \o ".comments." \o op
                          \o (IF op = "upsert" THEN ".update" ELSE ".data"),
                        UpdatePayload(op, Get(Get(e.payload, "comments"), op))) :
            op \in { o \in {"update", "updateMany", "upsert"} :
                       isPlainObject(Get(Get(e.payload, "comments"), o)) } } :
          e \in ParentRows(args) }

UpdatePayloads(args) == TopUpdatePayloads(args) \cup NestedUpdatePayloads(args)

WithoutTenantField(e) ==
  ~isPlainObject(e.payload) \/ Get(e.payload, getTenantField(e.model)) = Undef

\* a row without relation fields
IsLeaf(row) ==
  isPlainObject(row) /\ \A k \in {"comments", "tags", "post"} : ~HasKey(row, k)

Reordered ==
  { [i \in DOMAIN policy.rules |-> policy.rules[p[i]]] :
    p \in { q \in [DOMAIN policy.rules -> DOMAIN policy.rules] :
              \A i, j \in DOMAIN policy.rules : q[i] = q[j] => i = j } }

\* the masks of the matching allow rules: the one the predicate returned,
\* the one of the rule, the two merged; and undefined
ContributedMasks ==
  {Undef}
    \cup UNION { { RuleMask(policy.rules[i], pcall.input, which),
                   resolveMaskFactory(policy.rules[i][which], pcall.input),
                   IF policy.rules[i].when.kind = "details"
                     THEN policy.rules[i].when[which] ELSE Undef } :
                 i \in MatchingRules("allow"),
                 which \in {"readMask", "writeMask"} }

Frame(fn, model, payload, opts) ==
  [fn |-> fn, model |-> model, payload |-> payload, opts |-> opts]

\* a forEach whose callback is handed the list again
itemOfWhole(list, index) == list

\* list.forEach((item, index) => ...): the item at index
itemOf(list, index) == list.e[index]

\* what one activation does: whether it throws, and the calls it makes
activation(f) ==
  LET model == f.model
      payload == f.payload
      opts == f.opts
      tenantField == getTenantField(model)
      throw == [threw |-> TRUE, calls |-> << >>]
      calling(c) == [threw |-> FALSE, calls |-> c]
      none == [threw |-> FALSE, calls |-> << >>]
      forEach(fn, m, list, o) ==
        calling([i \in DOMAIN list.e |-> Frame(fn, m, itemOf(list, i), o)])
      when(cond, frame) == IF cond THEN <<frame>> ELSE << >>
  IN
  CASE f.fn = "ensureData" ->
         IF IsArray(payload) THEN forEach("ensureData", model, payload, opts)
         ELSE IF ~isPlainObject(payload)
           THEN IF opts.requireTenantField THEN throw ELSE none
         ELSE IF Get(payload, tenantField) = Undef
           THEN IF opts.requireTenantField /\ ~mayInject(opts.allowRewrite)
                  THEN throw
                ELSE calling(<<Frame("ensureNestedRelations", model, payload,
                                     opts)>>)
         ELSE IF tenantDiffers(Get(payload, tenantField)) THEN throw
         ELSE calling(<<Frame("ensureNestedRelations", model, payload, opts)>>)
    [] f.fn = "ensureNestedRelations" ->
         LET present == SelectSeq(getNestedTargets(model),
                                  LAMBDA e : HasKey(payload, e[1]))
         IN calling([i \in DOMAIN present |->
                       Frame("processRelationPayload", model,
                             Get(payload, present[i][1]),
                             [field |-> present[i][1],
                              config |-> present[i][2]])]
                    \o when(metaRequired,
                            Frame("strictKeys", model, payload, opts)))
    [] f.fn = "strictKeys" ->
         IF \E i \in DOMAIN payload.kv :
              /\ ~inNestedTargets(model, payload.kv[i][1])
              /\ hasRelationOperations(payload.kv[i][2])
           THEN throw
         ELSE none
    [] f.fn = "processRelationPayload" ->
         IF IsArray(payload)
           THEN forEach("processRelationPayload", model, payload, opts)
         ELSE IF ~isPlainObject(payload) THEN none
         ELSE
           LET entries == SelectSeq(payload.kv,
                                    LAMBDA e : e[1] \in RELATION_OPERATIONS)
           IN calling([i \in DOMAIN entries |->
                         Frame("relationOperation", model, entries[i][2],
                               [field |-> opts.field, config |-> opts.config,
                                operation |-> entries[i][1]])])
    [] f.fn = "relationOperation" ->
         LET operation == opts.operation
             targetModel == resolveTargetModel(model, opts.field, opts.config,
                                               operation)
         IN
         IF targetModel = "" THEN (IF metaRequired THEN throw ELSE none)
         ELSE
           CASE operation = "create" ->
                  calling(<<Frame("ensureData", targetModel, payload,
                                  createOpts)>>)
             [] operation = "createMany" ->
                  IF isPlainObject(payload)
                    THEN calling(<<Frame("ensureData", targetModel,
                                         Get(payload, "data"), createOpts)>>)
                  ELSE none
             [] operation \in {"update", "updateMany"} ->
                  IF isPlainObject(payload)
                    THEN calling(
                           when(Get(payload, "where") # Undef,
                                Frame("ensureWhere", targetModel,
                                      Get(payload, "where"),
                                      whereOpts(TRUE, operation)))
                           \o when(Get(payload, "data") # Undef,
                                   Frame("ensureData", targetModel,
                                         Get(payload, "data"), updateOpts)))
                  ELSE none
             [] operation = "upsert" ->
                  IF isPlainObject(payload)
                    THEN calling(
                           when(Get(payload, "where") # Undef,
                                Frame("ensureWhere", targetModel,
                                      Get(payload, "where"),
                                      whereOpts(TRUE, operation)))
                           \o when(Get(payload, "create") # Undef,
                                   Frame("ensureData", targetModel,
                                         Get(payload, "create"), createOpts))
                           \o when(Get(payload, "update") # Undef,
                                   Frame("ensureData", targetModel,
                                         Get(payload, "update"), updateOpts)))
                  ELSE none
             [] operation \in {"connect", "set", "disconnect"} ->
                  calling(<<Frame("ensureConnectPayload", targetModel, payload,
                                  [operation |-> operation])>>)
             [] operation = "connectOrCreate" ->
                  calling(<<Frame("ensureConnectOrCreate", targetModel, payload,
                                  [operation |-> operation])>>)
             [] operation = "deleteMany" ->
                  IF IsArray(payload)
                    THEN forEach("ensureWhere", targetModel, payload,
                                 whereOpts(FALSE, operation))
                  ELSE calling(<<Frame("ensureWhere", targetModel, payload,
                                       whereOpts(FALSE, operation))>>)
             [] OTHER -> none
    [] f.fn = "ensureWhere" ->
         IF Threw(ensureWhere(model, payload, "", opts, << >>)) THEN throw
         ELSE none
    [] f.fn = "ensureConnectPayload" ->
         IF IsArray(payload)
           THEN forEach("ensureConnectPayload", model, payload, opts)
         ELSE IF ~isPlainObject(payload) THEN throw
         ELSE IF Get(payload, tenantField) # Undef
           THEN IF tenantDiffers(Get(payload, tenantField)) THEN throw ELSE none
         ELSE IF isPlainObject(Get(payload, "where"))
           THEN calling(<<Frame("ensureWhere", model, Get(payload, "where"),
                                whereOpts(TRUE, opts.operation))>>)
         ELSE IF /\ getCompositeSelector(model) # ""
                 /\ isPlainObject(Get(payload, getCompositeSelector(model)))
           THEN LET tenantValue ==
                      Get(Get(payload, getCompositeSelector(model)), tenantField)
                IN IF tenantValue = Undef
                     THEN IF guard.mode = "assist" THEN none ELSE throw
                   ELSE IF tenantDiffers(tenantValue) THEN throw
                   ELSE none
         ELSE IF metaRequired THEN throw
         ELSE none
    [] f.fn = "ensureConnectOrCreate" ->
         IF IsArray(payload)
           THEN forEach("ensureConnectOrCreate", model, payload, opts)
         ELSE IF ~isPlainObject(payload) THEN throw
         ELSE calling(when(Truthy(Get(payload, "where")),
                           Frame("ensureWhere", model, Get(payload, "where"),
                                 whereOpts(TRUE, "connectOrCreate")))
                      \o when(Truthy(Get(payload, "create")),
                              Frame("ensureData", model, Get(payload, "create"),
                                    createOpts)))
    [] f.fn = "ensureCreateMany" ->
         IF IsArray(Get(payload, "data"))
           THEN forEach("ensureData", model, Get(payload, "data"), createOpts)
         ELSE IF /\ isPlainObject(Get(payload, "data"))
                 /\ IsArray(Get(Get(payload, "data"), "data"))
           THEN forEach("ensureData", model, Get(Get(payload, "data"), "data"),
                        createOpts)
         ELSE none

\* the calls the body of enforce makes, in order
enforceCalls(model, operation, args) ==
  LET where == Frame("ensureWhere", model, Get(args, "where"),
                     whereOpts(TRUE, operation))
  IN
  IF ~isPlainObject(args) THEN << >>
  ELSE CASE operation = "create" ->
              <<Frame("ensureData", model, Get(args, "data"), createOpts)>>
         [] operation = "createMany" ->
              <<Frame("ensureCreateMany", model, args, createOpts)>>
         [] operation \in {"delete", "deleteMany"} -> <<where>>
         [] operation \in {"update", "updateMany"} ->
              <<where, Frame("ensureData", model, Get(args, "data"), updateOpts)>>
         [] operation = "upsert" ->
              <<where,
                Frame("ensureData", model, Get(args, "create"), createOpts),
                Frame("ensureData", model, Get(args, "update"), updateOpts)>>
         [] OTHER -> << >>

\* enforce has been called and has not made a call of its own yet
WalkInit ==
  /\ guard \in GuardConfigs
  /\ \E operation \in WRITE_OPERATIONS :
       \E args \in (CASE operation = "create" -> CreateArgs
                      [] operation = "createMany" -> CreateManyArgs
                      [] operation \in {"update", "updateMany"} -> UpdateArgs
                      [] operation \in {"delete", "deleteMany"} -> DeleteArgs
                      [] operation = "upsert" -> UpsertArgs) :
         /\ call = [model |-> "Post", operation |-> operation, args |-> args]
         /\ walk = [stack |-> enforceCalls("Post", operation, args),
                    status |-> "running"]
  /\ result = R(Undef, << >>, NoError)
  /\ warnings = << >>
  /\ forwarded = NotForwarded
  /\ policy = << >>
  /\ pcall = NoCall
  /\ decision = NoCall
  /\ heap = << >>
  /\ mcall = NoCall
  /\ merged = NoCall
  /\ rls = NoCall

\* the next pending call is made; when none is pending enforce returns args
Step ==
  /\ walk.status = "running"
  /\ LET made(a) ==
           walk' = IF a.threw THEN [stack |-> << >>, status |-> "threw"]
                   ELSE [walk EXCEPT !.stack = a.calls \o Tail(walk.stack)]
     IN IF walk.stack = << >> THEN walk' = [walk EXCEPT !.status = "returned"]
        ELSE made(activation(Head(walk.stack)))
  /\ UNCHANGED <<guardVars, policyVars, mergeVars, rls>>

\* enforce is a synchronous call: once entered it runs on until it returns
\* or throws
WalkSpec == WalkInit /\ [][Step]_vars /\ WF_vars(Step)

(***************************************************************************)
(* Properties of the guard: termination                                    *)
(***************************************************************************)
RECURSIVE Size(_)
\* the size of a payload: an object or list is larger than everything in it
Size(value) ==
  IF isPlainObject(value)
    THEN 2 + Sum([i \in DOMAIN value.kv |-> Size(value.kv[i][2]) + 4])
  ELSE IF IsArray(value)
    THEN 2 + Sum([i \in DOMAIN value.e |-> Size(value.e[i]) + 4])
  ELSE 1

\* the calls a function is away from its next descent into a sub-payload
Rank(fn) ==
  CASE fn = "relationOperation" -> 3
    [] fn \in {"ensureData", "ensureConnectPayload", "ensureConnectOrCreate",
               "ensureCreateMany"} -> 2
    [] OTHER -> 1

\* strictKeys makes no call
Weight(f) == IF f.fn = "strictKeys" THEN 1 ELSE Size(f.payload) + Rank(f.fn)

\* what the pending calls have left to walk
Measure(stack) == Sum([i \in DOMAIN stack |-> Weight(stack[i])])

Ended == walk.status \in {"returned", "threw"}

\* C30: enforce terminates, by returning or by throwing, on every finite
\* args tree, in every mode, with metadata whose nestedTargets form a cycle
\* (Post.comments -> Comment, Comment.post -> Post): every call it makes
\* leaves strictly less to walk, each descent being into a strictly smaller
\* sub-payload, and the walk ends the way enforce ends.
C30_EnforceTerminates ==
  /\ <>Ended
  /\ [][walk.status = "running" =>
          (Ended' \/ Measure(walk'.stack) < Measure(walk.stack))]_vars
  /\ [](Ended =>
          (walk.status = "threw")
            = Threw(enforce(call.model, call.operation, call.args)))

\* a walk that went from a Post through comments to a Comment and through
\* post back to a Post, and returned
C30_Witness ==
  /\ walk # NoCall
  /\ walk.status = "returned"
  /\ LET post == Get(Get(Get(Get(call.args, "data"), "comments"), "create"),
                     "post")
     IN /\ call.operation = "create"
        /\ isPlainObject(Get(call.args, "data"))
        /\ isPlainObject(Get(Get(call.args, "data"), "comments"))
        /\ isPlainObject(Get(Get(Get(call.args, "data"), "comments"), "create"))
        /\ isPlainObject(post)
        /\ isPlainObject(Get(post, "create"))

====
